---- MODULE Spec2Model ----
(***************************************************************************)
(* Real-time aircraft-safety monitoring engine: the collision detector,    *)
(* the low-altitude detector, the Redis position store they read and the   *)
(* Redis alert ledger they write.                                          *)
(*                                                                         *)
(* Units.  Latitude and longitude are integers in 1e-5 degree, altitudes   *)
(* integers in 1/10 foot, distances integers in metres (the floor of the   *)
(* floating-point value, which preserves every comparison `d < k` with a   *)
(* whole number of metres k), times integers in milliseconds.              *)
(***************************************************************************)
EXTENDS Integers, Sequences, FiniteSets, TLC

VARIABLES
    now,                    \* the clock read by Date.now() and by Redis, ms
    aircraftPosition,       \* Redis hashes aircraft:<callsign>:position
    alertCollision,         \* Redis strings alert:collision:<id>
    alertsCollisionActive,  \* Redis list alerts:collision:active
    alertLowAltitude,       \* Redis strings alert:low-altitude:<id>
    alertsAltitudeActive,   \* Redis list alerts:altitude:active
    last,                   \* the last operation, its inputs and what it returned
    writesLeft,             \* ingestion calls still allowed by the bounds
    ticksLeft,              \* clock steps still allowed by the bounds
    cyclesLeft,             \* detector cycles still allowed by the bounds
    faultsLeft,             \* failing Redis and Neo4j calls still allowed
    checkInterval,          \* this.checkInterval of each detector
    intervals,              \* the interval timers that are set
    running                 \* the executions of handlers that are in progress

vars == <<now, aircraftPosition, alertCollision, alertsCollisionActive,
          alertLowAltitude, alertsAltitudeActive, last, writesLeft, ticksLeft,
          cyclesLeft, faultsLeft, checkInterval, intervals, running>>

timers == <<checkInterval, intervals>>

budgets == <<writesLeft, ticksLeft, cyclesLeft, faultsLeft>>

ledgers == <<alertCollision, alertsCollisionActive, alertLowAltitude,
             alertsAltitudeActive>>

-----------------------------------------------------------------------------
(* Bounds of the model *)

MaxWrites == 2
MaxTicks == 2
MaxCycles == 2
MaxFaults == 1
MaxIntervals == 2
MaxInserts == 150

-----------------------------------------------------------------------------
(* Program constants *)

SAFE_DISTANCE_KM == 5
SAFE_ALTITUDE_DIFF_FT == 1000
MIN_SAFE_ALTITUDE_FT == 1000
POSITION_TTL_S == 300
ALERT_TTL_S == 300
ACTIVE_LAST_INDEX == 99

\* JavaScript null, and null where a number is expected
Null == "null"
NullNumber == 0 - 1
\* a Redis key that has no expiry
NoExpiry == 0 - 1

Feet(n) == n * 10
Km(n) == n * 1000
Seconds(n) == n * 1000

Min(a, b) == IF a < b THEN a ELSE b
Abs(x) == IF x < 0 THEN 0 - x ELSE x
Range(s) == {s[i] : i \in DOMAIN s}

-----------------------------------------------------------------------------
(* Sample coordinates.  Five points on the meridian through the centre of  *)
(* Frankfurt Airport (50.0379, 8.5622), and the positions of SWR123 and    *)
(* AUA456 in DEMO_FLIGHTS.                                                 *)

Points ==
    << [latitude |-> 5005580, longitude |-> 856220],
       [latitude |-> 5012770, longitude |-> 856220],
       [latitude |-> 5012790, longitude |-> 856220],
       [latitude |-> 5015480, longitude |-> 856220],
       [latitude |-> 5017270, longitude |-> 856220],
       [latitude |-> 5010000, longitude |-> 860000],
       [latitude |-> 5013000, longitude |-> 861000] >>

\* The sample points on the meridian of the airport
MeridianPoints == {i \in DOMAIN Points : Points[i].longitude = Points[1].longitude}

PointIndex(lat, lon) ==
    CHOOSE i \in DOMAIN Points :
        Points[i].latitude = lat /\ Points[i].longitude = lon

\* R * c of the Haversine formula with R = 6371 km, evaluated in IEEE double
\* arithmetic for each ordered pair of sample points, floor of the metres.
HaversineMetres ==
    << <<0, 7994, 8017, 11008, 12998, 5606, 8927>>,
       <<7994, 0, 22, 3013, 5003, 4092, 3416>>,
       <<8017, 22, 0, 2991, 4981, 4109, 3415>>,
       <<11008, 3013, 2991, 0, 1990, 6662, 4382>>,
       <<12998, 5003, 4981, 1990, 0, 8520, 5843>>,
       <<5606, 4092, 4109, 6662, 8520, 0, 3411>>,
       <<8927, 3416, 3415, 4382, 5843, 3411, 0>> >>

calculateDistance(lat1, lon1, lat2, lon2) ==
    HaversineMetres[PointIndex(lat1, lon1)][PointIndex(lat2, lon2)]

\* Number.prototype.toFixed(2) of a distance in km, as hundredths of a km
toFixed2(metres) == (metres + 5) \div 10

\* Math.round of a non-negative altitude, in whole feet
MathRound(tenths) == (tenths + 5) \div 10

-----------------------------------------------------------------------------
(* Collision detection: the pure part *)

\* A variant whose first tier takes an altitude difference of exactly 500 ft
CollisionCalculateSeverityInclusive(distance, altitudeDiff) ==
    IF distance < Km(2) /\ altitudeDiff <= Feet(500)
    THEN "CRITICAL"
    ELSE IF distance < Km(3) /\ altitudeDiff < Feet(700)
         THEN "HIGH"
         ELSE "MEDIUM"

CollisionCalculateSeverity(distance, altitudeDiff) ==
    IF distance < Km(2) /\ altitudeDiff < Feet(500)
    THEN "CRITICAL"
    ELSE IF distance < Km(3) /\ altitudeDiff < Feet(700)
         THEN "HIGH"
         ELSE "MEDIUM"

\* `${aircraft1.callsign}-${aircraft2.callsign}-${Date.now()}`
CollisionAlertId(callsign1, callsign2, t) ==
    callsign1 \o "-" \o callsign2 \o "-" \o ToString(t)

\* A variant that takes an altitude difference of exactly 1000 ft as unsafe
IsUnsafeInclusive(distance, altitudeDiff) ==
    distance < Km(SAFE_DISTANCE_KM) /\ altitudeDiff <= Feet(SAFE_ALTITUDE_DIFF_FT)

\* The test of checkPairCollision
IsUnsafe(distance, altitudeDiff) ==
    distance < Km(SAFE_DISTANCE_KM) /\ altitudeDiff < Feet(SAFE_ALTITUDE_DIFF_FT)

\* The alert for the pair, as a sequence: <<alert>>, or <<>> for null.
checkPairCollision(aircraft1, aircraft2, t) ==
    LET distance == calculateDistance(aircraft1.latitude, aircraft1.longitude,
                                      aircraft2.latitude, aircraft2.longitude)
        altitudeDiff == Abs(aircraft1.altitude - aircraft2.altitude)
    IN  IF IsUnsafe(distance, altitudeDiff)
        THEN << [ id |-> CollisionAlertId(aircraft1.callsign, aircraft2.callsign, t),
                  aircraft1 |-> aircraft1.callsign,
                  aircraft2 |-> aircraft2.callsign,
                  distance |-> toFixed2(distance),
                  altitudeDiff |-> MathRound(altitudeDiff),
                  severity |-> CollisionCalculateSeverity(distance, altitudeDiff),
                  positions |->
                      [ aircraft1 |-> [ latitude |-> aircraft1.latitude,
                                        longitude |-> aircraft1.longitude,
                                        altitude |-> aircraft1.altitude ],
                        aircraft2 |-> [ latitude |-> aircraft2.latitude,
                                        longitude |-> aircraft2.longitude,
                                        altitude |-> aircraft2.altitude ] ],
                  timestamp |-> t ] >>
        ELSE <<>>

-----------------------------------------------------------------------------
(* Redis *)

Callsigns == {"DLH401", "SWR123", "AUA456"}

\* `aircraft:${callsign}:position`
PositionKey(callsign) == "aircraft:" \o callsign \o ":position"

\* Boolean.prototype.toString
BoolToString(b) == IF b THEN "true" ELSE "false"

\* redis.keys('aircraft:*:position'): the keys that have not expired
PositionKeys(store) == {e.key : e \in store}

\* redis.hGetAll(key): <<the hash>>, or <<>> for the empty object of a missing key
hGetAll(store, key) ==
    IF \E e \in store : e.key = key
    THEN << CHOOSE e \in store : e.key = key >>
    ELSE <<>>

\* A variant that leaves an existing hash as it is
hSetIfAbsent(store, key, fields) ==
    IF \E e \in store : e.key = key
    THEN store
    ELSE store \cup {[ key |-> key,
                       callsign |-> fields.callsign,
                       latitude |-> fields.latitude,
                       longitude |-> fields.longitude,
                       altitude |-> fields.altitude,
                       on_ground |-> fields.on_ground,
                       expireAt |-> NoExpiry ]}

\* redis.hSet(key, fields): the fields replace those of an existing hash, whose
\* expiry is kept; a new hash has none
hSet(store, key, fields) ==
    LET old == hGetAll(store, key)
        expireAt == IF old = <<>> THEN NoExpiry ELSE old[1].expireAt
    IN  {e \in store : e.key # key}
            \cup {[ key |-> key,
                    callsign |-> fields.callsign,
                    latitude |-> fields.latitude,
                    longitude |-> fields.longitude,
                    altitude |-> fields.altitude,
                    on_ground |-> fields.on_ground,
                    expireAt |-> expireAt ]}

\* redis.expire(key, seconds)
expire(store, key, seconds, t) ==
    {IF e.key = key THEN [e EXCEPT !.expireAt = t + Seconds(seconds)] ELSE e :
        e \in store}

\* What Redis still holds at time t: a key is gone once its expiry is reached
Unexpired(store, t) == {e \in store : e.expireAt = NoExpiry \/ e.expireAt > t}

\* redis.set(key, JSON.stringify(alert), {EX: seconds})
setEX(keys, alert, seconds, t) ==
    {e \in keys : e.alert.id # alert.id}
        \cup {[alert |-> alert, expireAt |-> t + Seconds(seconds)]}

lPush(list, value) == <<value>> \o list

\* A variant that takes the stop index as exclusive
lTrimExclusive(list, start, stop) == SubSeq(list, start + 1, Min(stop, Len(list)))

lTrim(list, start, stop) == SubSeq(list, start + 1, Min(stop + 1, Len(list)))

\* The Redis call of storeAlert that throws, or "ok"
StoreModes == {"ok", "set", "lPush", "lTrim"}

\* All orders in which redis.keys may return a set of keys
Orderings(S) ==
    {s \in [1..Cardinality(S) -> S] : \A i, j \in DOMAIN s : i # j => s[i] # s[j]}

-----------------------------------------------------------------------------
(* Collision detection: one cycle *)

\* A variant that stores nothing for a pair the active list already names
CollisionStoreAlertOncePerPair(ledger, alert, mode, t) ==
    IF mode = "set"
          \/ \E i \in DOMAIN ledger.active :
                {ledger.active[i].aircraft1, ledger.active[i].aircraft2}
                    = {alert.aircraft1, alert.aircraft2}
    THEN ledger
    ELSE LET keys == setEX(ledger.keys, alert, ALERT_TTL_S, t)
         IN  IF mode = "lPush"
             THEN [ledger EXCEPT !.keys = keys]
             ELSE LET pushed == lPush(ledger.active, alert)
                  IN  IF mode = "lTrim"
                      THEN [keys |-> keys, active |-> pushed]
                      ELSE [keys |-> keys,
                            active |-> lTrim(pushed, 0, ACTIVE_LAST_INDEX)]

\* A variant that sets the key of the alert without an expiry
CollisionStoreAlertWithoutExpiry(ledger, alert, mode, t) ==
    IF mode = "set"
    THEN ledger
    ELSE LET keys == {e \in ledger.keys : e.alert.id # alert.id}
                         \cup {[alert |-> alert, expireAt |-> NoExpiry]}
         IN  IF mode = "lPush"
             THEN [ledger EXCEPT !.keys = keys]
             ELSE LET pushed == lPush(ledger.active, alert)
                  IN  IF mode = "lTrim"
                      THEN [keys |-> keys, active |-> pushed]
                      ELSE [keys |-> keys,
                            active |-> lTrim(pushed, 0, ACTIVE_LAST_INDEX)]

CollisionStoreAlert(ledger, alert, mode, t) ==
    IF mode = "set"
    THEN ledger
    ELSE LET keys == setEX(ledger.keys, alert, ALERT_TTL_S, t)
         IN  IF mode = "lPush"
             THEN [ledger EXCEPT !.keys = keys]
             ELSE LET pushed == lPush(ledger.active, alert)
                  IN  IF mode = "lTrim"
                      THEN [keys |-> keys, active |-> pushed]
                      ELSE [keys |-> keys,
                            active |-> lTrim(pushed, 0, ACTIVE_LAST_INDEX)]

\* A variant that keeps the aircraft on the ground
RECURSIVE CollisionReadPositionsWithGrounded(_, _)
CollisionReadPositionsWithGrounded(store, keys) ==
    IF keys = <<>>
    THEN <<>>
    ELSE LET data == hGetAll(store, Head(keys))
             rest == CollisionReadPositionsWithGrounded(store, Tail(keys))
         IN  IF data # <<>> /\ data[1].callsign # ""
             THEN << [ callsign |-> data[1].callsign,
                       latitude |-> data[1].latitude,
                       longitude |-> data[1].longitude,
                       altitude |-> data[1].altitude ] >> \o rest
             ELSE rest

\* The entries the cycle keeps of what it read, in the order of the keys
RECURSIVE CollisionReadPositions(_, _)
CollisionReadPositions(store, keys) ==
    IF keys = <<>>
    THEN <<>>
    ELSE LET data == hGetAll(store, Head(keys))
             rest == CollisionReadPositions(store, Tail(keys))
         IN  IF data # <<>> /\ data[1].callsign # "" /\ data[1].on_ground # "true"
             THEN << [ callsign |-> data[1].callsign,
                       latitude |-> data[1].latitude,
                       longitude |-> data[1].longitude,
                       altitude |-> data[1].altitude ] >> \o rest
             ELSE rest

\* A variant whose inner loop starts at i instead of i + 1
RECURSIVE CollisionPairsFromSelf(_, _, _)
CollisionPairsFromSelf(i, j, n) ==
    IF i > n
    THEN <<>>
    ELSE IF j > n
         THEN CollisionPairsFromSelf(i + 1, i + 1, n)
         ELSE << <<i, j>> >> \o CollisionPairsFromSelf(i, j + 1, n)

\* The index pairs <<i, j>> of the two nested loops, in the order they are visited
RECURSIVE CollisionPairs(_, _, _)
CollisionPairs(i, j, n) ==
    IF i > n
    THEN <<>>
    ELSE IF j > n
         THEN CollisionPairs(i + 1, i + 2, n)
         ELSE << <<i, j>> >> \o CollisionPairs(i, j + 1, n)

\* The body of the nested loops over the pairs still to visit.  acc holds the
\* alerts pushed so far, the ledger, and for each alert the outcome of its
\* storeAlert call; modes gives the outcome of the k-th storeAlert call.
RECURSIVE CollisionLoop(_, _, _, _, _)
CollisionLoop(pairs, positions, modes, t, acc) ==
    IF pairs = <<>>
    THEN acc
    ELSE LET alert == checkPairCollision(positions[Head(pairs)[1]],
                                         positions[Head(pairs)[2]], t)
             mode == modes[Len(acc.alerts) + 1]
         IN  IF alert # <<>>
             THEN CollisionLoop(Tail(pairs), positions, modes, t,
                      [ alerts |-> Append(acc.alerts, alert[1]),
                        ledger |-> CollisionStoreAlert(acc.ledger, alert[1], mode, t),
                        storeModes |-> Append(acc.storeModes, mode) ])
             ELSE CollisionLoop(Tail(pairs), positions, modes, t, acc)

\* A variant in which a storeAlert call that fails ends the cycle like a failed read
checkCollisionRisksAbortingOnStore(store, ledger, keys, readFault, modes, t) ==
    LET positions == CollisionReadPositions(store, keys)
        pairs == CollisionPairs(1, 2, Len(positions))
        none == [ alerts |-> <<>>, ledger |-> ledger, storeModes |-> <<>> ]
        done == CollisionLoop(pairs, positions, modes, t, none)
    IN  IF readFault
        THEN [ alerts |-> <<>>, ledger |-> ledger, storeModes |-> <<>>,
               positions |-> <<>>, evaluated |-> <<>>, aborted |-> TRUE, threw |-> FALSE ]
        ELSE IF Len(keys) < 2
             THEN [ alerts |-> <<>>, ledger |-> ledger, storeModes |-> <<>>,
                    positions |-> <<>>, evaluated |-> <<>>, aborted |-> FALSE, threw |-> FALSE ]
             ELSE IF \E k \in DOMAIN done.storeModes : done.storeModes[k] # "ok"
                  THEN [ alerts |-> <<>>, ledger |-> done.ledger,
                         storeModes |-> done.storeModes,
                         positions |-> positions, evaluated |-> <<>>,
                         aborted |-> TRUE, threw |-> FALSE ]
                  ELSE [ alerts |-> done.alerts,
                         ledger |-> done.ledger,
                         storeModes |-> done.storeModes,
                         positions |-> positions,
                         evaluated |-> [k \in DOMAIN pairs |->
                                           << positions[pairs[k][1]].callsign,
                                              positions[pairs[k][2]].callsign >>],
                         aborted |-> FALSE, threw |-> FALSE ]

\* A variant without the try block: an error of a read leaves the call
checkCollisionRisksUncaught(store, ledger, keys, readFault, modes, t) ==
    LET positions == CollisionReadPositions(store, keys)
        pairs == CollisionPairs(1, 2, Len(positions))
        none == [ alerts |-> <<>>, ledger |-> ledger, storeModes |-> <<>> ]
    IN  IF readFault
        THEN [ alerts |-> <<>>, ledger |-> ledger, storeModes |-> <<>>,
               positions |-> <<>>, evaluated |-> <<>>, aborted |-> TRUE,
               threw |-> TRUE ]
        ELSE IF Len(keys) < 2
             THEN [ alerts |-> <<>>, ledger |-> ledger, storeModes |-> <<>>,
                    positions |-> <<>>, evaluated |-> <<>>, aborted |-> FALSE,
                    threw |-> FALSE ]
             ELSE LET done == CollisionLoop(pairs, positions, modes, t, none)
                  IN  [ alerts |-> done.alerts,
                        ledger |-> done.ledger,
                        storeModes |-> done.storeModes,
                        positions |-> positions,
                        evaluated |-> [k \in DOMAIN pairs |->
                                          << positions[pairs[k][1]].callsign,
                                             positions[pairs[k][2]].callsign >>],
                        aborted |-> FALSE, threw |-> FALSE ]

\* checkCollisionRisks: keys is what redis.keys returned, readFault says that
\* redis.keys or a redis.hGetAll throws
checkCollisionRisks(store, ledger, keys, readFault, modes, t) ==
    LET positions == CollisionReadPositions(store, keys)
        pairs == CollisionPairs(1, 2, Len(positions))
        none == [ alerts |-> <<>>, ledger |-> ledger, storeModes |-> <<>> ]
    IN  IF readFault
        THEN [ alerts |-> <<>>, ledger |-> ledger, storeModes |-> <<>>,
               positions |-> <<>>, evaluated |-> <<>>, aborted |-> TRUE, threw |-> FALSE ]
        ELSE IF Len(keys) < 2
             THEN [ alerts |-> <<>>, ledger |-> ledger, storeModes |-> <<>>,
                    positions |-> <<>>, evaluated |-> <<>>, aborted |-> FALSE, threw |-> FALSE ]
             ELSE LET done == CollisionLoop(pairs, positions, modes, t, none)
                  IN  [ alerts |-> done.alerts,
                        ledger |-> done.ledger,
                        storeModes |-> done.storeModes,
                        positions |-> positions,
                        evaluated |-> [k \in DOMAIN pairs |->
                                          << positions[pairs[k][1]].callsign,
                                             positions[pairs[k][2]].callsign >>],
                        aborted |-> FALSE, threw |-> FALSE ]

-----------------------------------------------------------------------------
(* The zone index held in Neo4j *)

Airports ==
    { [ name |-> "Frankfurt Airport", icao |-> "EDDF",
        latitude |-> 5003790, longitude |-> 856220 ] }

\* The (a:Airport)-[:HAS_ZONE]->(z:Zone) pairs
Zones ==
    { [ airport |-> "Frankfurt Airport", name |-> "Approach Zone",
        latitude |-> 5003790, longitude |-> 856220, radiusMeters |-> 10000 ],
      [ airport |-> "Frankfurt Airport", name |-> "Terminal Zone",
        latitude |-> 5003790, longitude |-> 856220, radiusMeters |-> 2000 ] }

\* Cypher point.distance between a sample point and the centre of Frankfurt
\* Airport, where every zone is centred: floor of the metres.
CentreMetres == <<1992, 9996, 10018, 13013, 15005, 7421, 10806>>

pointDistance(lat, lon, zone) == CentreMetres[PointIndex(lat, lon)]

\* What the catch block of getAirportZoneInfo returns
ZoneInfoError ==
    [ inZone |-> FALSE, airportName |-> Null, airportCode |-> Null,
      zoneName |-> Null, distance |-> NullNumber ]

\* A variant whose catch block answers that the point is in a zone
getAirportZoneInfoFailingSafe(latitude, longitude, fault) ==
    LET matching == {z \in Zones :
                        pointDistance(latitude, longitude, z) < z.radiusMeters}
        nearest == {z \in matching : \A y \in matching :
                        pointDistance(latitude, longitude, z)
                            <= pointDistance(latitude, longitude, y)}
    IN  IF fault
        THEN {[ZoneInfoError EXCEPT !.inZone = TRUE]}
        ELSE IF matching = {}
             THEN {ZoneInfoError}
             ELSE { [ inZone |-> TRUE,
                      airportName |-> z.airport,
                      airportCode |-> Null,
                      zoneName |-> z.name,
                      distance |-> toFixed2(pointDistance(latitude, longitude, z)) ] :
                      z \in nearest }

\* getAirportZoneInfo: the set of results the call may return.  The first
\* query keeps the zones that contain the point and returns one of least
\* distance (any of them when several are equally near).  The session is closed
\* after the first query, so the second query, for the nearest airport, is
\* rejected by the driver and the catch block answers.
getAirportZoneInfo(latitude, longitude, fault) ==
    LET matching == {z \in Zones :
                        pointDistance(latitude, longitude, z) < z.radiusMeters}
        nearest == {z \in matching : \A y \in matching :
                        pointDistance(latitude, longitude, z)
                            <= pointDistance(latitude, longitude, y)}
    IN  IF fault \/ matching = {}
        THEN {ZoneInfoError}
        ELSE { [ inZone |-> TRUE,
                 airportName |-> z.airport,
                 airportCode |-> Null,
                 zoneName |-> z.name,
                 distance |-> toFixed2(pointDistance(latitude, longitude, z)) ] :
                 z \in nearest }

-----------------------------------------------------------------------------
(* Low-altitude detection: one cycle *)

\* A variant whose tiers take their upper limits
AltitudeCalculateSeverityInclusive(altitude) ==
    IF altitude <= Feet(500)
    THEN "CRITICAL"
    ELSE IF altitude <= Feet(750)
         THEN "HIGH"
         ELSE "MEDIUM"

AltitudeCalculateSeverity(altitude) ==
    IF altitude < Feet(500)
    THEN "CRITICAL"
    ELSE IF altitude < Feet(750)
         THEN "HIGH"
         ELSE "MEDIUM"

\* `${callsign}-${Date.now()}`
AltitudeAlertId(callsign, t) == callsign \o "-" \o ToString(t)

AltitudeStoreAlert(ledger, alert, mode, t) ==
    IF mode = "set"
    THEN ledger
    ELSE LET keys == setEX(ledger.keys, alert, ALERT_TTL_S, t)
         IN  IF mode = "lPush"
             THEN [ledger EXCEPT !.keys = keys]
             ELSE LET pushed == lPush(ledger.active, alert)
                  IN  IF mode = "lTrim"
                      THEN [keys |-> keys, active |-> pushed]
                      ELSE [keys |-> keys,
                            active |-> lTrim(pushed, 0, ACTIVE_LAST_INDEX)]

AircraftInfo(data, zoneInfo) ==
    [ callsign |-> data.callsign,
      altitude |-> data.altitude,
      latitude |-> data.latitude,
      longitude |-> data.longitude,
      inAirportZone |-> zoneInfo.inZone,
      airportName |-> zoneInfo.airportName,
      zoneName |-> zoneInfo.zoneName,
      distanceToAirport |-> zoneInfo.distance ]

\* The alert built for a low aircraft that is in no zone
RiskAlert(data, zoneInfo, t) ==
    [ id |-> AltitudeAlertId(data.callsign, t),
      callsign |-> data.callsign,
      altitude |-> data.altitude,
      latitude |-> data.latitude,
      longitude |-> data.longitude,
      severity |-> AltitudeCalculateSeverity(data.altitude),
      message |-> "Aircraft flying below safe altitude outside airport zone",
      inAirportZone |-> FALSE,
      airportName |-> Null,
      zoneName |-> Null,
      distanceToAirport |-> zoneInfo.distance,
      timestamp |-> t ]

\* The alert built for a low aircraft that is in a zone
SafeAlert(data, zoneInfo, t) ==
    [ id |-> AltitudeAlertId(data.callsign, t),
      callsign |-> data.callsign,
      altitude |-> data.altitude,
      latitude |-> data.latitude,
      longitude |-> data.longitude,
      severity |-> "SAFE",
      message |-> "Aircraft in " \o zoneInfo.airportName \o " "
                      \o zoneInfo.zoneName \o " - Normal operations",
      inAirportZone |-> TRUE,
      airportName |-> zoneInfo.airportName,
      zoneName |-> zoneInfo.zoneName,
      distanceToAirport |-> zoneInfo.distance,
      timestamp |-> t ]

\* A variant that hands the alert of an aircraft in a zone to storeAlert too
AltitudeCheckOneStoringSafe(data, zoneInfo, mode, t, acc) ==
    LET seen == [acc EXCEPT !.monitored = Append(@, AircraftInfo(data, zoneInfo))]
        alert == IF zoneInfo.inZone
                 THEN SafeAlert(data, zoneInfo, t)
                 ELSE RiskAlert(data, zoneInfo, t)
    IN  IF data.altitude < Feet(MIN_SAFE_ALTITUDE_FT)
        THEN [seen EXCEPT
                !.alerts = Append(@, alert),
                !.ledger = AltitudeStoreAlert(@, alert, mode, t),
                !.storeModes = Append(@, mode)]
        ELSE seen

\* A variant that takes an altitude of exactly the threshold as low
AltitudeCheckOneInclusive(data, zoneInfo, mode, t, acc) ==
    LET seen == [acc EXCEPT !.monitored = Append(@, AircraftInfo(data, zoneInfo))]
    IN  IF data.altitude <= Feet(MIN_SAFE_ALTITUDE_FT)
        THEN IF ~zoneInfo.inZone
             THEN [seen EXCEPT
                     !.alerts = Append(@, RiskAlert(data, zoneInfo, t)),
                     !.ledger = AltitudeStoreAlert(@, RiskAlert(data, zoneInfo, t),
                                                   mode, t),
                     !.storeModes = Append(@, mode)]
             ELSE [seen EXCEPT
                     !.alerts = Append(@, SafeAlert(data, zoneInfo, t))]
        ELSE seen

\* One iteration of the loop over the keys, for an entry that was not skipped.
\* mode is the outcome of the storeAlert call, if one is made.
AltitudeCheckOne(data, zoneInfo, mode, t, acc) ==
    LET seen == [acc EXCEPT !.monitored = Append(@, AircraftInfo(data, zoneInfo))]
    IN  IF data.altitude < Feet(MIN_SAFE_ALTITUDE_FT)
        THEN IF ~zoneInfo.inZone
             THEN [seen EXCEPT
                     !.alerts = Append(@, RiskAlert(data, zoneInfo, t)),
                     !.ledger = AltitudeStoreAlert(@, RiskAlert(data, zoneInfo, t),
                                                   mode, t),
                     !.storeModes = Append(@, mode)]
             ELSE [seen EXCEPT
                     !.alerts = Append(@, SafeAlert(data, zoneInfo, t))]
        ELSE seen

\* A variant that does not skip the aircraft on the ground
RECURSIVE AltitudeLoopWithGrounded(_, _, _, _, _, _)
AltitudeLoopWithGrounded(store, keys, k, plan, t, acc) ==
    IF k > Len(keys)
    THEN acc
    ELSE IF plan.readFaultAt = k + 1
         THEN [acc EXCEPT !.aborted = TRUE]
         ELSE LET data == hGetAll(store, keys[k])
              IN  IF data = <<>> \/ data[1].callsign = ""
                  THEN AltitudeLoopWithGrounded(store, keys, k + 1, plan, t, acc)
                  ELSE AltitudeLoopWithGrounded(store, keys, k + 1, plan, t,
                           AltitudeCheckOne(data[1], plan.zoneInfos[k],
                               plan.modes[Len(acc.storeModes) + 1], t, acc))

\* The loop over the keys from the k-th on.  plan.readFaultAt is the Redis read
\* that throws (1 for redis.keys, k + 1 for the hGetAll of the k-th key, 0 for
\* none), plan.zoneInfos[k] what getAirportZoneInfo returns for the k-th key,
\* plan.modes[n] the outcome of the n-th storeAlert call.
RECURSIVE AltitudeLoop(_, _, _, _, _, _)
AltitudeLoop(store, keys, k, plan, t, acc) ==
    IF k > Len(keys)
    THEN acc
    ELSE IF plan.readFaultAt = k + 1
         THEN [acc EXCEPT !.aborted = TRUE]
         ELSE LET data == hGetAll(store, keys[k])
              IN  IF data = <<>> \/ data[1].callsign = "" \/ data[1].on_ground = "true"
                  THEN AltitudeLoop(store, keys, k + 1, plan, t, acc)
                  ELSE AltitudeLoop(store, keys, k + 1, plan, t,
                           AltitudeCheckOne(data[1], plan.zoneInfos[k],
                               plan.modes[Len(acc.storeModes) + 1], t, acc))

\* A variant whose totalAircraft counts the keys read
checkLowAltitudeAircraftCountingKeys(store, ledger, keys, plan, t) ==
    LET start == [ alerts |-> <<>>, monitored |-> <<>>, ledger |-> ledger,
                   storeModes |-> <<>>, aborted |-> FALSE ]
        done == IF plan.readFaultAt = 1
                THEN [start EXCEPT !.aborted = TRUE]
                ELSE AltitudeLoop(store, keys, 1, plan, t, start)
    IN  IF done.aborted
        THEN [ alerts |-> <<>>, totalAircraft |-> 0, monitoredAircraft |-> <<>>,
               ledger |-> done.ledger, storeModes |-> done.storeModes,
               aborted |-> TRUE, threw |-> FALSE ]
        ELSE [ alerts |-> done.alerts,
               totalAircraft |-> Len(keys),
               monitoredAircraft |-> done.monitored,
               ledger |-> done.ledger, storeModes |-> done.storeModes,
               aborted |-> FALSE, threw |-> FALSE ]

\* checkLowAltitudeAircraft
checkLowAltitudeAircraft(store, ledger, keys, plan, t) ==
    LET start == [ alerts |-> <<>>, monitored |-> <<>>, ledger |-> ledger,
                   storeModes |-> <<>>, aborted |-> FALSE ]
        done == IF plan.readFaultAt = 1
                THEN [start EXCEPT !.aborted = TRUE]
                ELSE AltitudeLoop(store, keys, 1, plan, t, start)
    IN  IF done.aborted
        THEN [ alerts |-> <<>>, totalAircraft |-> 0, monitoredAircraft |-> <<>>,
               ledger |-> done.ledger, storeModes |-> done.storeModes,
               aborted |-> TRUE, threw |-> FALSE ]
        ELSE [ alerts |-> done.alerts,
               totalAircraft |-> Len(done.monitored),
               monitoredAircraft |-> done.monitored,
               ledger |-> done.ledger, storeModes |-> done.storeModes,
               aborted |-> FALSE, threw |-> FALSE ]

-----------------------------------------------------------------------------
(* Ingestion *)

\* One element of the livePositions list handed to storeLivePositions
Aircraft(callsign, point, altitude, on_ground) ==
    [ callsign |-> callsign,
      latitude |-> Points[point].latitude,
      longitude |-> Points[point].longitude,
      altitude |-> altitude,
      on_ground |-> on_ground ]

\* The Redis calls of storeLivePositions from the k-th on: call 2i - 1 is the
\* hSet of the i-th aircraft and call 2i its expire; faultAt is the call that
\* throws (0 for none), which ends the loop.
RECURSIVE storeLivePositions(_, _, _, _, _)
storeLivePositions(store, positions, k, faultAt, t) ==
    IF k > 2 * Len(positions) \/ faultAt = k
    THEN store
    ELSE LET aircraft == positions[(k + 1) \div 2]
             key == PositionKey(aircraft.callsign)
         IN  IF k % 2 = 1
             THEN storeLivePositions(
                      hSet(store, key,
                           [ callsign |-> aircraft.callsign,
                             latitude |-> aircraft.latitude,
                             longitude |-> aircraft.longitude,
                             altitude |-> aircraft.altitude,
                             on_ground |-> BoolToString(aircraft.on_ground) ]),
                      positions, k + 1, faultAt, t)
             ELSE storeLivePositions(expire(store, key, POSITION_TTL_S, t),
                                     positions, k + 1, faultAt, t)

\* The live positions a provider may report
Feed ==
    { Aircraft("DLH401", 3, Feet(300), FALSE),
      Aircraft("DLH401", 3, Feet(400), FALSE),
      Aircraft("SWR123", 2, Feet(500), FALSE),
      Aircraft("SWR123", 2, Feet(500), TRUE) }

Batches ==
    {<<a>> : a \in Feed}
        \cup { << Aircraft("DLH401", 3, Feet(300), FALSE),
                  Aircraft("SWR123", 2, Feet(500), FALSE) >> }

-----------------------------------------------------------------------------
(* Failing calls.  A fault site names one call of a handler that throws; a   *)
(* plan is a set of sites, at most as many as the bounds still allow.       *)

RECURSIVE SubsetsUpTo(_, _)
SubsetsUpTo(S, k) ==
    IF k <= 0
    THEN {{}}
    ELSE LET smaller == SubsetsUpTo(S, k - 1)
         IN  smaller \cup {T \cup {x} : T \in smaller, x \in S}

\* At most one outcome for each call
Consistent(plan) ==
    \A a, b \in plan : (a.call = b.call /\ a.index = b.index) => a = b

FaultPlans(sites, k) == {plan \in SubsetsUpTo(sites, k) : Consistent(plan)}

StoreSites(n) ==
    { [call |-> "storeAlert", index |-> i, mode |-> m] :
        i \in 1..n, m \in StoreModes \ {"ok"} }

\* The outcome of each storeAlert call under a plan
PlanModes(plan, n) ==
    [ i \in 1..n |->
        IF \E f \in plan : f.call = "storeAlert" /\ f.index = i
        THEN (CHOOSE f \in plan : f.call = "storeAlert" /\ f.index = i).mode
        ELSE "ok" ]

-----------------------------------------------------------------------------
(* State *)

\* The two detectors, each a singleton with its own checkInterval
Services == {"collision", "altitude"}

\* this.checkInterval = null
NoInterval == 0

NoCall ==
    [ op |-> "none", keys |-> <<>>, positions |-> <<>>, evaluated |-> <<>>,
      alerts |-> <<>>, storeModes |-> <<>>, faults |-> {}, aborted |-> FALSE,
      totalAircraft |-> 0, monitoredAircraft |-> <<>>,
      trigger |-> "none", threw |-> FALSE, afterFailure |-> FALSE,
      limit |-> 0, identifier |-> "", flights |-> <<>>, summary |-> <<>>,
      status |-> <<>> ]

Init ==
    /\ now = 0
    /\ aircraftPosition = {}
    /\ alertCollision = {}
    /\ alertsCollisionActive = <<>>
    /\ alertLowAltitude = {}
    /\ alertsAltitudeActive = <<>>
    /\ last = NoCall
    /\ writesLeft = MaxWrites
    /\ ticksLeft = MaxTicks
    /\ cyclesLeft = MaxCycles
    /\ faultsLeft = MaxFaults
    /\ checkInterval = [service \in Services |-> NoInterval]
    /\ intervals = {}
    /\ running = {}

-----------------------------------------------------------------------------
(* Actions *)

\* FlightMonitorService.storeLivePositions(positions)
StoreLivePositions ==
    /\ writesLeft > 0
    /\ \E positions \in Batches :
       \E faultAt \in 0..(IF faultsLeft > 0 THEN 2 * Len(positions) ELSE 0) :
        /\ aircraftPosition' =
               storeLivePositions(aircraftPosition, positions, 1, faultAt, now)
        /\ last' = [NoCall EXCEPT !.op = "storeLivePositions",
                                  !.positions = positions,
                                  !.aborted = (faultAt # 0)]
        /\ faultsLeft' = IF faultAt # 0 THEN faultsLeft - 1 ELSE faultsLeft
    /\ writesLeft' = writesLeft - 1
    /\ UNCHANGED <<now, ledgers, ticksLeft, cyclesLeft, timers, running>>

\* Time passes; Redis drops the keys whose expiry is reached
TickSteps == {1, Seconds(ALERT_TTL_S) - 1}

Tick ==
    /\ ticksLeft > 0
    /\ \E d \in TickSteps :
        /\ now' = now + d
        /\ aircraftPosition' = Unexpired(aircraftPosition, now + d)
        /\ alertCollision' = Unexpired(alertCollision, now + d)
        /\ alertLowAltitude' = Unexpired(alertLowAltitude, now + d)
    /\ ticksLeft' = ticksLeft - 1
    /\ last' = [NoCall EXCEPT !.op = "tick"]
    /\ UNCHANGED <<alertsCollisionActive, alertsAltitudeActive, writesLeft,
                   cyclesLeft, faultsLeft, timers, running>>

\* The number of storeAlert calls one collision cycle can make
MaxCollisionStores == (Cardinality(Callsigns) * (Cardinality(Callsigns) - 1)) \div 2

CollisionFaultSites ==
    {[call |-> "read", index |-> 1, mode |-> "throw"]}
        \cup StoreSites(MaxCollisionStores)

\* One run of checkCollisionRisks, begun by a direct call ("call"), by the
\* interval timer ("timer") or by startMonitoring ("start")
CollisionCycle(trigger) ==
    /\ cyclesLeft > 0
    /\ \E keys \in Orderings(PositionKeys(aircraftPosition)),
          plan \in FaultPlans(CollisionFaultSites, faultsLeft) :
        LET r == checkCollisionRisks(aircraftPosition,
                     [keys |-> alertCollision, active |-> alertsCollisionActive],
                     keys,
                     \E f \in plan : f.call = "read",
                     PlanModes(plan, MaxCollisionStores),
                     now)
        IN  \* every planned fault is one of a call the cycle makes
            /\ \A f \in plan : f.call = "storeAlert" => f.index <= Len(r.storeModes)
            /\ alertCollision' = r.ledger.keys
            /\ alertsCollisionActive' = r.ledger.active
            /\ last' = [NoCall EXCEPT !.op = "checkCollisionRisks",
                                      !.keys = keys,
                                      !.positions = r.positions,
                                      !.evaluated = r.evaluated,
                                      !.alerts = r.alerts,
                                      !.storeModes = r.storeModes,
                                      !.faults = plan,
                                      !.aborted = r.aborted,
                                      !.trigger = trigger,
                                      !.threw = r.threw,
                                      !.afterFailure =
                                          (last.op = "checkCollisionRisks"
                                              /\ last.aborted)]
            /\ faultsLeft' = faultsLeft - Cardinality(plan)
    /\ cyclesLeft' = cyclesLeft - 1
    /\ UNCHANGED <<now, aircraftPosition, alertLowAltitude, alertsAltitudeActive,
                   writesLeft, ticksLeft>>

\* What getAirportZoneInfo may return for the hash under a key
ZoneInfosFor(store, key, fault) ==
    LET data == hGetAll(store, key)
    IN  IF data = <<>>
        THEN {ZoneInfoError}
        ELSE getAirportZoneInfo(data[1].latitude, data[1].longitude, fault)

AltitudeFaultSites(n) ==
    {[call |-> "read", index |-> i, mode |-> "throw"] : i \in 1..(n + 1)}
        \cup {[call |-> "getAirportZoneInfo", index |-> i, mode |-> "throw"] : i \in 1..n}
        \cup StoreSites(n)

\* One run of checkLowAltitudeAircraft, begun by a direct call, by the
\* interval timer or by startMonitoring
AltitudeCycle(trigger) ==
    /\ cyclesLeft > 0
    /\ \E keys \in Orderings(PositionKeys(aircraftPosition)) :
       \E plan \in FaultPlans(AltitudeFaultSites(Len(keys)), faultsLeft) :
       \E zoneInfos \in [1..Len(keys) ->
                            UNION {ZoneInfosFor(aircraftPosition, keys[k], FALSE)
                                       \cup ZoneInfosFor(aircraftPosition, keys[k], TRUE) :
                                       k \in 1..Len(keys)}] :
        /\ Cardinality({f \in plan : f.call = "read"}) <= 1
        /\ \A k \in 1..Len(keys) :
              zoneInfos[k] \in ZoneInfosFor(aircraftPosition, keys[k],
                  \E f \in plan : f.call = "getAirportZoneInfo" /\ f.index = k)
        /\ LET readFaults == {f \in plan : f.call = "read"}
               r == checkLowAltitudeAircraft(aircraftPosition,
                        [keys |-> alertLowAltitude, active |-> alertsAltitudeActive],
                        keys,
                        [readFaultAt |-> IF readFaults = {} THEN 0
                                         ELSE (CHOOSE f \in readFaults : TRUE).index,
                         zoneInfos |-> zoneInfos,
                         modes |-> PlanModes(plan, Cardinality(Callsigns))],
                        now)
           IN  /\ \A f \in plan : f.call = "storeAlert" => f.index <= Len(r.storeModes)
               /\ alertLowAltitude' = r.ledger.keys
               /\ alertsAltitudeActive' = r.ledger.active
               /\ last' = [NoCall EXCEPT !.op = "checkLowAltitudeAircraft",
                                         !.keys = keys,
                                         !.alerts = r.alerts,
                                         !.storeModes = r.storeModes,
                                         !.faults = plan,
                                         !.aborted = r.aborted,
                                         !.totalAircraft = r.totalAircraft,
                                         !.monitoredAircraft = r.monitoredAircraft,
                                         !.trigger = trigger,
                                         !.threw = r.threw,
                                         !.afterFailure =
                                             (last.op = "checkLowAltitudeAircraft"
                                                 /\ last.aborted)]
               /\ faultsLeft' = faultsLeft - Cardinality(plan)
    /\ cyclesLeft' = cyclesLeft - 1
    /\ UNCHANGED <<now, aircraftPosition, alertCollision, alertsCollisionActive,
                   writesLeft, ticksLeft>>

\* CollisionDetectionService.checkCollisionRisks()
CheckCollisionRisks == CollisionCycle("call") /\ UNCHANGED <<timers, running>>

\* AltitudeCheckService.checkLowAltitudeAircraft()
CheckLowAltitudeAircraft == AltitudeCycle("call") /\ UNCHANGED <<timers, running>>

Next ==
    \/ StoreLivePositions
    \/ Tick
    \/ CheckCollisionRisks
    \/ CheckLowAltitudeAircraft

Spec == Init /\ [][Next]_vars

-----------------------------------------------------------------------------
(* The monitoring timers.  An interval handle is a pair of the detector that *)
(* set it and a number; a handle that is set fires again and again until it  *)
(* is cleared.                                                               *)

IntervalsOf(service) == {h \in intervals : h.service = service}

\* setInterval(callback, interval): a handle that is not set at present
NewInterval(service) ==
    [ service |-> service,
      id |-> CHOOSE n \in 1..MaxIntervals :
                 /\ \A h \in IntervalsOf(service) : h.id # n
                 /\ \A m \in 1..(n - 1) : \E h \in IntervalsOf(service) : h.id = m ]

\* startMonitoring(): the initial check, then setInterval, whose handle
\* replaces the one held in this.checkInterval
startMonitoring(service) ==
    /\ Cardinality(IntervalsOf(service)) < MaxIntervals
    /\ intervals' = intervals \cup {NewInterval(service)}
    /\ checkInterval' = [checkInterval EXCEPT ![service] = NewInterval(service).id]

\* stopMonitoring(): clearInterval of the handle held, which stays in
\* this.checkInterval
stopMonitoring(service) ==
    /\ intervals' =
           IF checkInterval[service] # NoInterval
           THEN intervals \ {[service |-> service, id |-> checkInterval[service]]}
           ELSE intervals
    /\ last' = [NoCall EXCEPT !.op = "stopMonitoring", !.trigger = service]
    /\ UNCHANGED <<now, aircraftPosition, ledgers, budgets, checkInterval, running>>

CollisionStartMonitoring ==
    CollisionCycle("start") /\ startMonitoring("collision") /\ UNCHANGED running

CollisionStopMonitoring == stopMonitoring("collision")

\* The callback of the interval set by CollisionDetectionService.startMonitoring
CollisionTimerFires ==
    /\ IntervalsOf("collision") # {}
    /\ CollisionCycle("timer")
    /\ UNCHANGED <<timers, running>>

AltitudeStartMonitoring ==
    AltitudeCycle("start") /\ startMonitoring("altitude") /\ UNCHANGED running

AltitudeStopMonitoring == stopMonitoring("altitude")

\* The callback of the interval set by AltitudeCheckService.startMonitoring
AltitudeTimerFires ==
    /\ IntervalsOf("altitude") # {}
    /\ AltitudeCycle("timer")
    /\ UNCHANGED <<timers, running>>

\* Redis holds two aircraft when the detectors are started
InitTimer ==
    /\ now = 0
    /\ aircraftPosition =
           storeLivePositions({}, << Aircraft("DLH401", 3, Feet(300), FALSE),
                                     Aircraft("SWR123", 2, Feet(500), FALSE) >>,
                              1, 0, 0)
    /\ alertCollision = {}
    /\ alertsCollisionActive = <<>>
    /\ alertLowAltitude = {}
    /\ alertsAltitudeActive = <<>>
    /\ last = NoCall
    /\ writesLeft = 0
    /\ ticksLeft = MaxTicks
    /\ cyclesLeft = MaxCycles + 1
    /\ faultsLeft = MaxFaults
    /\ checkInterval = [service \in Services |-> NoInterval]
    /\ intervals = {}
    /\ running = {}

NextTimer ==
    \/ CollisionStartMonitoring
    \/ CollisionStopMonitoring
    \/ CollisionTimerFires
    \/ AltitudeStartMonitoring
    \/ AltitudeStopMonitoring
    \/ AltitudeTimerFires
    \/ Tick

SpecTimer == InitTimer /\ [][NextTimer]_vars

-----------------------------------------------------------------------------
(* One cycle over every fleet of a grid of positions and altitudes: two     *)
(* aircraft range over all sample points and altitudes, airborne or parked; *)
(* a third is absent, airborne or parked.                                   *)

SweepAltitudes == {Feet(300), Feet(500), Feet(750), Feet(1000), Feet(1300)}

SweepGrid(callsign) ==
    {Aircraft(callsign, p, a, FALSE) : p \in MeridianPoints, a \in SweepAltitudes}

SweepBatches ==
    { first \o second \o third :
        first \in {<<>>} \cup {<<a>> : a \in SweepGrid("DLH401")
                                         \cup {Aircraft("DLH401", 3, Feet(300), TRUE)}},
        second \in {<<>>} \cup {<<a>> : a \in SweepGrid("SWR123")
                                          \cup {Aircraft("SWR123", 2, Feet(500), TRUE)}},
        third \in { <<>>,
                    <<Aircraft("AUA456", 4, Feet(750), FALSE)>>,
                    <<Aircraft("AUA456", 4, Feet(750), TRUE)>> } }

InitSweep ==
    /\ now = 0
    /\ aircraftPosition \in {storeLivePositions({}, b, 1, 0, 0) : b \in SweepBatches}
    /\ alertCollision = {}
    /\ alertsCollisionActive = <<>>
    /\ alertLowAltitude = {}
    /\ alertsAltitudeActive = <<>>
    /\ last = NoCall
    /\ writesLeft = 0
    /\ ticksLeft = 0
    /\ cyclesLeft = 1
    /\ faultsLeft = 0
    /\ checkInterval = [service \in Services |-> NoInterval]
    /\ intervals = {}
    /\ running = {}

NextSweep ==
    \/ CheckCollisionRisks
    \/ CheckLowAltitudeAircraft

SpecSweep == InitSweep /\ [][NextSweep]_vars

-----------------------------------------------------------------------------
(* Reading the ledgers *)

\* getAlertHistory(limit = 50)
DEFAULT_HISTORY_LIMIT == 50

\* The limits a caller passes
HistoryLimits == {0, 1, 2, DEFAULT_HISTORY_LIMIT}

\* Array.prototype.sort with (a, b) => new Date(b.timestamp) - new Date(a.timestamp):
\* a stable sort, the greatest timestamp first.  InsertByTimestamp puts an
\* alert behind every alert of the sorted list that is not older than it.
RECURSIVE InsertByTimestamp(_, _)
InsertByTimestamp(alert, sorted) ==
    IF sorted = <<>>
    THEN <<alert>>
    ELSE IF Head(sorted).timestamp >= alert.timestamp
         THEN <<Head(sorted)>> \o InsertByTimestamp(alert, Tail(sorted))
         ELSE <<alert>> \o sorted

RECURSIVE SortByTimestamp(_, _)
SortByTimestamp(alerts, sorted) ==
    IF alerts = <<>>
    THEN sorted
    ELSE SortByTimestamp(Tail(alerts), InsertByTimestamp(Head(alerts), sorted))

\* A variant that reads every key, whatever the limit
getAlertHistoryUnlimited(keys, limit, fault) ==
    IF fault
    THEN <<>>
    ELSE SortByTimestamp([k \in DOMAIN keys |-> keys[k].alert], <<>>)

\* getAlertHistory(limit) of either detector: keys is what redis.keys returned
\* for the pattern of the detector, each key with what redis.get reads under
\* it; fault says that a Redis call throws.
getAlertHistory(keys, limit, fault) ==
    IF fault
    THEN <<>>
    ELSE LET slice == SubSeq(keys, 1, Min(limit, Len(keys)))
         IN  SortByTimestamp([k \in DOMAIN slice |-> slice[k].alert], <<>>)

\* CollisionDetectionService.getActiveAlerts(): lRange(list, 0, -1)
getActiveAlerts(list, fault) == IF fault THEN <<>> ELSE list

\* The outcomes of the Redis calls of one query
QueryFaults == IF faultsLeft > 0 THEN {FALSE, TRUE} ELSE {FALSE}

\* What a query leaves as it is
QueryFrame(fault) ==
    /\ faultsLeft' = IF fault THEN faultsLeft - 1 ELSE faultsLeft
    /\ UNCHANGED <<now, aircraftPosition, ledgers, writesLeft, ticksLeft,
                   cyclesLeft, timers, running>>

\* CollisionDetectionService.getAlertHistory(limit)
CollisionGetAlertHistory ==
    \E keys \in Orderings(alertCollision), limit \in HistoryLimits,
       fault \in QueryFaults :
        /\ last' = [NoCall EXCEPT !.op = "getAlertHistory",
                                  !.trigger = "collision",
                                  !.limit = limit,
                                  !.aborted = fault,
                                  !.alerts = getAlertHistory(keys, limit, fault)]
        /\ QueryFrame(fault)

\* AltitudeCheckService.getAlertHistory(limit)
AltitudeGetAlertHistory ==
    \E keys \in Orderings(alertLowAltitude), limit \in HistoryLimits,
       fault \in QueryFaults :
        /\ last' = [NoCall EXCEPT !.op = "getAlertHistory",
                                  !.trigger = "altitude",
                                  !.limit = limit,
                                  !.aborted = fault,
                                  !.alerts = getAlertHistory(keys, limit, fault)]
        /\ QueryFrame(fault)

\* CollisionDetectionService.getActiveAlerts()
CollisionGetActiveAlerts ==
    \E fault \in QueryFaults :
        /\ last' = [NoCall EXCEPT !.op = "getActiveAlerts",
                                  !.trigger = "collision",
                                  !.aborted = fault,
                                  !.alerts = getActiveAlerts(alertsCollisionActive, fault)]
        /\ QueryFrame(fault)

\* AltitudeCheckService.getActiveAlerts(): a run of checkLowAltitudeAircraft,
\* whose result it returns
AltitudeGetActiveAlerts == AltitudeCycle("getActiveAlerts") /\ UNCHANGED <<timers, running>>

-----------------------------------------------------------------------------
(* FlightMonitorService: the flight views *)

\* The documents of the MongoDB collection flight_schedules: one of a flight
\* that also reports positions, one that has no status field (status "") of a
\* flight that reports positions, one of the seed data that reports none
FlightSchedules ==
    { [flightNumber |-> "DLH401", status |-> "delayed"],
      [flightNumber |-> "AUA456", status |-> ""],
      [flightNumber |-> "LH400", status |-> "delayed"] }

\* The paths (f:Flight {callsign})-[:ASSIGNED_TO]->(g:Gate)-[:BELONGS_TO]->(t:Terminal)
\* of the Neo4j graph
GateAssignments ==
    { [callsign |-> "AUA456", gate |-> "A1", terminal |-> "Terminal 1"] }

\* The paths (g:Gate)-[:BELONGS_TO]->(t:Terminal) of the Neo4j graph
Gates ==
    { [gate |-> "A1", terminal |-> "Terminal 1"],
      [gate |-> "B1", terminal |-> "Terminal 2"] }

Terminals == {"Terminal 1", "Terminal 2", "Terminal 3"}

\* The identifiers a caller asks getFlightDetails for
FlightIdentifiers == Callsigns \cup {"DLH", "LH400", "XXX000"}

\* redis.keys(`aircraft:${flightNumber}*:position`): the callsigns of the
\* model that begin with flightNumber
CallsignsMatching(flightNumber) ==
    IF flightNumber \in Callsigns
    THEN {flightNumber}
    ELSE IF flightNumber = "DLH" THEN {"DLH401"} ELSE {}

\* getGateAssignment(callsign): <<the first record>>, <<>> for null
getGateAssignment(callsign, fault) ==
    IF fault \/ ~ \E g \in GateAssignments : g.callsign = callsign
    THEN <<>>
    ELSE << CHOOSE g \in GateAssignments : g.callsign = callsign >>

\* getFlightSchedule(callsign): <<the document>>, <<>> for null
getFlightSchedule(callsign, fault) ==
    IF fault \/ ~ \E d \in FlightSchedules : d.flightNumber = callsign
    THEN <<>>
    ELSE << CHOOSE d \in FlightSchedules : d.flightNumber = callsign >>

\* A variant in which the status of the schedule comes before the flag
determineStatusScheduleFirst(liveData, schedule) ==
    IF schedule # <<>> /\ schedule[1].status # ""
    THEN schedule[1].status
    ELSE IF liveData.on_ground = "true" THEN "on_ground" ELSE "in_flight"

\* determineStatus(liveData, schedule)
determineStatus(liveData, schedule) ==
    IF liveData.on_ground = "true"
    THEN "on_ground"
    ELSE IF schedule # <<>>
         THEN IF schedule[1].status # "" THEN schedule[1].status ELSE "in_flight"
         ELSE "in_flight"

\* The view getLiveFlights and getFlightDetails build of one hash
FlightView(data, gateFault, scheduleFault) ==
    LET gateInfo == getGateAssignment(data.callsign, gateFault)
        schedule == getFlightSchedule(data.callsign, scheduleFault)
    IN  [ callsign |-> data.callsign,
          position |-> << [ latitude |-> data.latitude,
                            longitude |-> data.longitude,
                            altitude |-> data.altitude ] >>,
          on_ground |-> (data.on_ground = "true"),
          gate |-> IF gateInfo # <<>> /\ gateInfo[1].gate # ""
                   THEN gateInfo[1].gate ELSE Null,
          terminal |-> IF gateInfo # <<>> /\ gateInfo[1].terminal # ""
                       THEN gateInfo[1].terminal ELSE Null,
          status |-> determineStatus(data, schedule),
          schedule |-> schedule ]

\* The loop of getLiveFlights from the k-th key on; site is the lookup that
\* fails, if one does
RECURSIVE LiveFlightViews(_, _, _, _)
LiveFlightViews(store, keys, k, site) ==
    IF k > Len(keys)
    THEN <<>>
    ELSE LET data == hGetAll(store, keys[k])
             rest == LiveFlightViews(store, keys, k + 1, site)
         IN  IF data # <<>> /\ data[1].callsign # ""
             THEN << FlightView(data[1],
                                site.call = "gate" /\ site.index = k,
                                site.call = "schedule" /\ site.index = k) >>
                      \o rest
             ELSE rest

\* A variant that a failing lookup of one entry ends
getLiveFlightsAbortingOnLookup(store, keys, site) ==
    IF site.call # "none"
    THEN [threw |-> TRUE, flights |-> <<>>]
    ELSE [threw |-> FALSE, flights |-> LiveFlightViews(store, keys, 1, site)]

\* getLiveFlights(): threw says that it rethrows the error of a Redis call
getLiveFlights(store, keys, site) ==
    IF site.call = "redis"
    THEN [threw |-> TRUE, flights |-> <<>>]
    ELSE [threw |-> FALSE, flights |-> LiveFlightViews(store, keys, 1, site)]

\* A variant that throws for an identifier it finds nothing of
getFlightDetailsThrowingAbsent(store, flightNumber, keys, site) ==
    IF site.call = "redis"
    THEN [threw |-> TRUE, flights |-> <<>>]
    ELSE IF Len(keys) > 0
         THEN [ threw |-> FALSE,
                flights |-> << FlightView(hGetAll(store, keys[1])[1],
                                          site.call = "gate",
                                          site.call = "schedule") >> ]
         ELSE LET schedule == getFlightSchedule(flightNumber, site.call = "schedule")
              IN  IF schedule # <<>>
                  THEN [ threw |-> FALSE,
                         flights |-> << [ callsign |-> flightNumber,
                                          position |-> <<>>,
                                          status |-> IF schedule[1].status # ""
                                                     THEN schedule[1].status
                                                     ELSE "scheduled",
                                          schedule |-> schedule ] >> ]
                  ELSE [threw |-> TRUE, flights |-> <<>>]

\* A variant whose schedule-only view always has the status scheduled
getFlightDetailsAlwaysScheduled(store, flightNumber, keys, site) ==
    IF site.call = "redis"
    THEN [threw |-> TRUE, flights |-> <<>>]
    ELSE IF Len(keys) > 0
         THEN [ threw |-> FALSE,
                flights |-> << FlightView(hGetAll(store, keys[1])[1],
                                          site.call = "gate",
                                          site.call = "schedule") >> ]
         ELSE LET schedule == getFlightSchedule(flightNumber, site.call = "schedule")
              IN  IF schedule # <<>>
                  THEN [ threw |-> FALSE,
                         flights |-> << [ callsign |-> flightNumber,
                                          position |-> <<>>,
                                          status |-> "scheduled",
                                          schedule |-> schedule ] >> ]
                  ELSE [threw |-> FALSE, flights |-> <<>>]

\* getFlightDetails(flightNumber): keys is what redis.keys returned for the
\* pattern of the identifier; flights is <<the view>>, or <<>> for null
getFlightDetails(store, flightNumber, keys, site) ==
    IF site.call = "redis"
    THEN [threw |-> TRUE, flights |-> <<>>]
    ELSE IF Len(keys) > 0
         THEN [ threw |-> FALSE,
                flights |-> << FlightView(hGetAll(store, keys[1])[1],
                                          site.call = "gate",
                                          site.call = "schedule") >> ]
         ELSE LET schedule == getFlightSchedule(flightNumber, site.call = "schedule")
              IN  IF schedule # <<>>
                  THEN [ threw |-> FALSE,
                         flights |-> << [ callsign |-> flightNumber,
                                          position |-> <<>>,
                                          status |-> IF schedule[1].status # ""
                                                     THEN schedule[1].status
                                                     ELSE "scheduled",
                                          schedule |-> schedule ] >> ]
                  ELSE [threw |-> FALSE, flights |-> <<>>]

\* getFlightsByTerminal(terminalName)
getFlightsByTerminal(store, keys, terminalName, site) ==
    LET all == getLiveFlights(store, keys, site)
    IN  [ threw |-> all.threw,
          flights |-> SelectSeq(all.flights, LAMBDA f : f.terminal = terminalName) ]

\* getGateStatus(): one row for each gate and flight assigned to it, one row
\* with occupiedBy null for a gate that no flight is assigned to
getGateStatus ==
    { [gate |-> g.gate, terminal |-> g.terminal, occupiedBy |-> a.callsign] :
          <<g, a>> \in {p \in Gates \X GateAssignments : p[1].gate = p[2].gate} }
    \cup { [gate |-> g.gate, terminal |-> g.terminal, occupiedBy |-> Null] :
               g \in {h \in Gates : ~ \E a \in GateAssignments : a.gate = h.gate} }

\* A variant that counts as in flight the flights with the status in_flight
SummaryOfCountingStatus(flights, gates, t) ==
    [ totalFlights |-> Len(flights),
      inFlight |-> Len(SelectSeq(flights, LAMBDA f : f.status = "in_flight")),
      onGround |-> Len(SelectSeq(flights, LAMBDA f : f.on_ground)),
      totalGates |-> Cardinality(gates),
      occupiedGates |-> Cardinality({g \in gates : g.occupiedBy # Null}),
      availableGates |-> Cardinality({g \in gates : g.occupiedBy = Null}),
      timestamp |-> t ]

\* The object getSummary returns for the flights and the gates it has read
SummaryOf(flights, gates, t) ==
    [ totalFlights |-> Len(flights),
      inFlight |-> Len(SelectSeq(flights, LAMBDA f : ~ f.on_ground)),
      onGround |-> Len(SelectSeq(flights, LAMBDA f : f.on_ground)),
      totalGates |-> Cardinality(gates),
      occupiedGates |-> Cardinality({g \in gates : g.occupiedBy # Null}),
      availableGates |-> Cardinality({g \in gates : g.occupiedBy = Null}),
      timestamp |-> t ]

\* getSummary(): site "graph" is a failure of getGateStatus, which rethrows
getSummary(store, keys, site) ==
    LET all == getLiveFlights(store, keys, site)
    IN  IF all.threw \/ site.call = "graph"
        THEN [threw |-> TRUE, summary |-> <<>>, flights |-> <<>>]
        ELSE [ threw |-> FALSE,
               summary |-> << SummaryOf(all.flights, getGateStatus, now) >>,
               flights |-> all.flights ]

\* router.get('/:flightNumber'): the status and the error of the answer to
\* what getFlightDetails did
FlightRoute(result) ==
    IF result.threw
    THEN [status |-> 500, error |-> "error.message"]
    ELSE IF result.flights = <<>>
         THEN [status |-> 404, error |-> "Flight not found"]
         ELSE [status |-> 200, error |-> ""]

NoSite == [call |-> "none", index |-> 0]

\* The lookups of a flight query that can fail, n entries being read
FlightQuerySites(n) ==
    IF faultsLeft > 0
    THEN {NoSite, [call |-> "redis", index |-> 1]}
             \cup {[call |-> c, index |-> k] : c \in {"gate", "schedule"}, k \in 1..n}
    ELSE {NoSite}

GetLiveFlights ==
    \E keys \in Orderings(PositionKeys(aircraftPosition)) :
      \E site \in FlightQuerySites(Len(keys)) :
        LET result == getLiveFlights(aircraftPosition, keys, site)
        IN  /\ last' = [NoCall EXCEPT !.op = "getLiveFlights",
                                      !.keys = keys,
                                      !.faults = {site} \ {NoSite},
                                      !.threw = result.threw,
                                      !.flights = result.flights]
            /\ QueryFrame(site # NoSite)

GetFlightDetails ==
    \E flightNumber \in FlightIdentifiers :
      \E keys \in Orderings({PositionKey(c) : c \in CallsignsMatching(flightNumber)}
                               \cap PositionKeys(aircraftPosition)) :
        \E site \in FlightQuerySites(1) :
          LET result == getFlightDetails(aircraftPosition, flightNumber, keys, site)
          IN  /\ last' = [NoCall EXCEPT !.op = "getFlightDetails",
                                      !.keys = keys,
                                      !.faults = {site} \ {NoSite},
                                        !.identifier = flightNumber,
                                        !.threw = result.threw,
                                        !.flights = result.flights]
              /\ QueryFrame(site # NoSite)

GetFlightsByTerminal ==
    \E terminalName \in Terminals :
      \E keys \in Orderings(PositionKeys(aircraftPosition)) :
        \E site \in FlightQuerySites(Len(keys)) :
          LET result == getFlightsByTerminal(aircraftPosition, keys, terminalName, site)
          IN  /\ last' = [NoCall EXCEPT !.op = "getFlightsByTerminal",
                                      !.keys = keys,
                                      !.faults = {site} \ {NoSite},
                                        !.identifier = terminalName,
                                        !.threw = result.threw,
                                        !.flights = result.flights]
              /\ QueryFrame(site # NoSite)

GetSummary ==
    \E keys \in Orderings(PositionKeys(aircraftPosition)) :
      \E site \in FlightQuerySites(Len(keys))
                     \cup (IF faultsLeft > 0
                           THEN {[call |-> "graph", index |-> 1]} ELSE {}) :
        LET result == getSummary(aircraftPosition, keys, site)
        IN  /\ last' = [NoCall EXCEPT !.op = "getSummary",
                                      !.keys = keys,
                                      !.faults = {site} \ {NoSite},
                                      !.threw = result.threw,
                                      !.flights = result.flights,
                                      !.summary = result.summary]
            /\ QueryFrame(site # NoSite)

-----------------------------------------------------------------------------
(* The flight queries over the fleets that ingestion has stored *)

\* What ingestion has stored at the start: two aircraft in the air, or one on
\* the ground and one in the air
FlightFleets ==
    { << Aircraft("DLH401", 3, Feet(300), FALSE),
         Aircraft("SWR123", 2, Feet(500), FALSE) >>,
      << Aircraft("DLH401", 3, 0, TRUE),
         Aircraft("AUA456", 1, Feet(8000), FALSE) >> }

InitFlights ==
    /\ now = 0
    /\ \E fleet \in FlightFleets :
           aircraftPosition = storeLivePositions({}, fleet, 1, 0, 0)
    /\ alertCollision = {}
    /\ alertsCollisionActive = <<>>
    /\ alertLowAltitude = {}
    /\ alertsAltitudeActive = <<>>
    /\ last = NoCall
    /\ writesLeft = 1
    /\ ticksLeft = MaxTicks
    /\ cyclesLeft = 0
    /\ faultsLeft = MaxFaults
    /\ checkInterval = [service \in Services |-> NoInterval]
    /\ intervals = {}
    /\ running = {}

NextFlights ==
    \/ StoreLivePositions
    \/ Tick
    \/ GetLiveFlights
    \/ GetFlightDetails
    \/ GetFlightsByTerminal
    \/ GetSummary

SpecFlights == InitFlights /\ [][NextFlights]_vars

-----------------------------------------------------------------------------
(* Handlers step by step.  An execution of an async function runs from one   *)
(* await to the next in one step, and the steps of other executions and of   *)
(* ingestion come between its steps.  pc names the await it stands at.       *)

\* The executions that are in progress at one time
MaxRunning == 2

NewExecution(op, trigger) ==
    [ id |-> CHOOSE n \in 1..MaxRunning :
                 /\ \A e \in running : e.id # n
                 /\ \A m \in 1..(n - 1) : \E e \in running : e.id = m,
      op |-> op, trigger |-> trigger, pc |-> "keys",
      keys |-> <<>>, k |-> 1, items |-> <<>>, i |-> 1, j |-> 2, alerts |-> <<>> ]

\* The call of an async function: it runs up to its first await, redis.keys
Begin(op, trigger) ==
    /\ Cardinality(running) < MaxRunning
    /\ running' = running \cup {NewExecution(op, trigger)}

\* getSummary() is called
SummaryBegin ==
    /\ cyclesLeft > 0
    /\ Begin("getSummary", "call")
    /\ cyclesLeft' = cyclesLeft - 1
    /\ last' = [NoCall EXCEPT !.op = "begin", !.trigger = "getSummary"]
    /\ UNCHANGED <<now, aircraftPosition, ledgers, writesLeft, ticksLeft,
                   faultsLeft, timers>>

\* getSummary() goes on from an await: from redis.keys to the first hGetAll;
\* from the hGetAll of a key, by the lookups of its gate and schedule, to the
\* hGetAll of the next key; after the last key, by getGateStatus, to its
\* return
SummaryStep ==
    \E e \in running :
        /\ e.op = "getSummary"
        /\ \/ /\ e.pc = "keys"
              /\ \E keys \in Orderings(PositionKeys(aircraftPosition)) :
                     running' = (running \ {e})
                                    \cup {[e EXCEPT !.pc = "read", !.keys = keys]}
              /\ last' = [NoCall EXCEPT !.op = "step", !.trigger = "getSummary"]
           \/ /\ e.pc = "read"
              /\ e.k <= Len(e.keys)
              /\ LET data == hGetAll(aircraftPosition, e.keys[e.k])
                     views == IF data # <<>> /\ data[1].callsign # ""
                              THEN << FlightView(data[1], FALSE, FALSE) >>
                              ELSE <<>>
                 IN  running' = (running \ {e})
                                    \cup {[e EXCEPT !.k = e.k + 1,
                                                    !.items = e.items \o views]}
              /\ last' = [NoCall EXCEPT !.op = "step", !.trigger = "getSummary"]
           \/ /\ e.pc = "read"
              /\ e.k > Len(e.keys)
              /\ running' = running \ {e}
              /\ last' = [NoCall EXCEPT
                             !.op = "getSummary",
                             !.keys = e.keys,
                             !.flights = e.items,
                             !.summary = << SummaryOf(e.items, getGateStatus, now) >>]
        /\ UNCHANGED <<now, aircraftPosition, ledgers, budgets, timers>>

InitSummary ==
    /\ now = 0
    /\ \E fleet \in FlightFleets :
           aircraftPosition = storeLivePositions({}, fleet, 1, 0, 0)
    /\ alertCollision = {}
    /\ alertsCollisionActive = <<>>
    /\ alertLowAltitude = {}
    /\ alertsAltitudeActive = <<>>
    /\ last = NoCall
    /\ writesLeft = 1
    /\ ticksLeft = MaxTicks
    /\ cyclesLeft = MaxCycles
    /\ faultsLeft = 0
    /\ checkInterval = [service \in Services |-> NoInterval]
    /\ intervals = {}
    /\ running = {}

NextSummary ==
    \/ StoreLivePositions
    \/ Tick
    \/ SummaryBegin
    \/ SummaryStep

SpecSummary == InitSummary /\ [][NextSummary]_vars

-----------------------------------------------------------------------------
(* The collision detector step by step, with its timer.  The storeAlert of   *)
(* one alert is one step.                                                    *)

\* The pairs i < j of positions, from the pair <<i, j>> on in the order of the
\* loops, for which checkPairCollision returns an alert
UnsafePairsFrom(positions, i, j, t) ==
    {p \in (1..Len(positions)) \X (1..Len(positions)) :
        /\ p[1] < p[2]
        /\ p[1] > i \/ (p[1] = i /\ p[2] >= j)
        /\ checkPairCollision(positions[p[1]], positions[p[2]], t) # <<>>}

\* The first of a set of pairs in the order of the loops
FirstPair(pairs) ==
    CHOOSE p \in pairs :
        \A q \in pairs : p[1] < q[1] \/ (p[1] = q[1] /\ p[2] <= q[2])

\* What is recorded of a step of an execution that has not returned
StepOf(e) == [NoCall EXCEPT !.op = "step", !.identifier = e.op,
                            !.trigger = e.trigger]

\* What is recorded of a cycle that returns
ReturnOf(e, alerts) == [NoCall EXCEPT !.op = e.op, !.trigger = e.trigger,
                                      !.keys = e.keys, !.alerts = alerts]

\* checkCollisionRisks() is called on demand
CollisionBegin ==
    /\ cyclesLeft > 0
    /\ Begin("checkCollisionRisks", "call")
    /\ cyclesLeft' = cyclesLeft - 1
    /\ last' = [NoCall EXCEPT !.op = "begin", !.identifier = "checkCollisionRisks",
                              !.trigger = "call"]
    /\ UNCHANGED <<now, aircraftPosition, ledgers, writesLeft, ticksLeft,
                   faultsLeft, timers>>

\* CollisionDetectionService.startMonitoring(): the initial check is called
\* and not awaited, then the interval is set
CollisionStart ==
    /\ cyclesLeft > 0
    /\ Begin("checkCollisionRisks", "start")
    /\ startMonitoring("collision")
    /\ cyclesLeft' = cyclesLeft - 1
    /\ last' = [NoCall EXCEPT !.op = "startMonitoring", !.trigger = "collision"]
    /\ UNCHANGED <<now, aircraftPosition, ledgers, writesLeft, ticksLeft,
                   faultsLeft>>

\* The callback of an interval that is set calls checkCollisionRisks()
CollisionTimerBegin ==
    /\ cyclesLeft > 0
    /\ IntervalsOf("collision") # {}
    /\ Begin("checkCollisionRisks", "timer")
    /\ cyclesLeft' = cyclesLeft - 1
    /\ last' = [NoCall EXCEPT !.op = "begin", !.identifier = "checkCollisionRisks",
                              !.trigger = "timer"]
    /\ UNCHANGED <<now, aircraftPosition, ledgers, writesLeft, ticksLeft,
                   faultsLeft, timers>>

\* A variant that gives the cycle up at a key whose hash is gone
CollisionReadOneGivingUp(e, store) ==
    IF hGetAll(store, e.keys[e.k]) = <<>>
    THEN [e EXCEPT !.k = Len(e.keys) + 1, !.items = <<>>]
    ELSE [e EXCEPT !.k = e.k + 1,
                   !.items = e.items \o CollisionReadPositions(store, <<e.keys[e.k]>>)]

\* The hGetAll of the key the execution stands at and the filter on its
\* result: a hash that is gone reads as {}, which has no callsign
CollisionReadOne(e, store) ==
    [e EXCEPT !.k = e.k + 1,
              !.items = e.items \o CollisionReadPositions(store, <<e.keys[e.k]>>)]

\* checkCollisionRisks() goes on from an await: from redis.keys to the first
\* hGetAll, or to its return if there are fewer than two keys; from one
\* hGetAll to the next; then from pair to pair up to the next alert, which it
\* stores, or to its return
CollisionStep ==
    \E e \in running :
        /\ e.op = "checkCollisionRisks"
        /\ \/ /\ e.pc = "keys"
              /\ \E keys \in Orderings(PositionKeys(aircraftPosition)) :
                     IF Len(keys) < 2
                     THEN /\ running' = running \ {e}
                          /\ last' = ReturnOf([e EXCEPT !.keys = keys], <<>>)
                     ELSE /\ running' = (running \ {e})
                                  \cup {[e EXCEPT !.pc = "read", !.keys = keys]}
                          /\ last' = StepOf(e)
              /\ UNCHANGED ledgers
           \/ /\ e.pc = "read"
              /\ e.k <= Len(e.keys)
              /\ running' = (running \ {e})
                     \cup {CollisionReadOne(e, aircraftPosition)}
              /\ last' = StepOf(e)
              /\ UNCHANGED ledgers
           \/ /\ e.pc = "read"
              /\ e.k > Len(e.keys)
              /\ LET unsafe == UnsafePairsFrom(e.items, e.i, e.j, now)
                 IN  IF unsafe = {}
                     THEN /\ running' = running \ {e}
                          /\ last' = ReturnOf(e, e.alerts)
                          /\ UNCHANGED ledgers
                     ELSE LET pair == FirstPair(unsafe)
                              alert == checkPairCollision(e.items[pair[1]],
                                                          e.items[pair[2]], now)[1]
                              ledger == CollisionStoreAlert(
                                            [keys |-> alertCollision,
                                             active |-> alertsCollisionActive],
                                            alert, "ok", now)
                          IN  /\ running' = (running \ {e})
                                     \cup {[e EXCEPT !.i = pair[1],
                                                     !.j = pair[2] + 1,
                                                     !.alerts = e.alerts \o <<alert>>]}
                              /\ last' = StepOf(e)
                              /\ alertCollision' = ledger.keys
                              /\ alertsCollisionActive' = ledger.active
                              /\ UNCHANGED <<alertLowAltitude, alertsAltitudeActive>>
        /\ UNCHANGED <<now, aircraftPosition, budgets, timers>>

InitMonitor ==
    /\ now = 0
    /\ aircraftPosition =
           storeLivePositions({}, << Aircraft("DLH401", 3, Feet(300), FALSE),
                                     Aircraft("SWR123", 2, Feet(500), FALSE) >>,
                              1, 0, 0)
    /\ alertCollision = {}
    /\ alertsCollisionActive = <<>>
    /\ alertLowAltitude = {}
    /\ alertsAltitudeActive = <<>>
    /\ last = NoCall
    /\ writesLeft = 0
    /\ ticksLeft = 1
    /\ cyclesLeft = MaxCycles + 1
    /\ faultsLeft = 0
    /\ checkInterval = [service \in Services |-> NoInterval]
    /\ intervals = {}
    /\ running = {}

NextMonitor ==
    \/ CollisionBegin
    \/ CollisionStart
    \/ CollisionStopMonitoring
    \/ CollisionTimerBegin
    \/ CollisionStep
    \/ Tick

SpecMonitor == InitMonitor /\ [][NextMonitor]_vars

-----------------------------------------------------------------------------
(* The detectors and the queries over a fleet that is in the store *)

InitQuery ==
    /\ now = 0
    /\ aircraftPosition =
           storeLivePositions({}, << Aircraft("DLH401", 3, Feet(300), FALSE),
                                     Aircraft("AUA456", 2, Feet(500), FALSE) >>,
                              1, 0, 0)
    /\ alertCollision = {}
    /\ alertsCollisionActive = <<>>
    /\ alertLowAltitude = {}
    /\ alertsAltitudeActive = <<>>
    /\ last = NoCall
    /\ writesLeft = 0
    /\ ticksLeft = MaxTicks
    /\ cyclesLeft = MaxCycles
    /\ faultsLeft = MaxFaults
    /\ checkInterval = [service \in Services |-> NoInterval]
    /\ intervals = {}
    /\ running = {}

NextQuery ==
    \/ CheckCollisionRisks
    \/ CheckLowAltitudeAircraft
    \/ Tick
    \/ CollisionGetActiveAlerts
    \/ CollisionGetAlertHistory
    \/ AltitudeGetActiveAlerts
    \/ AltitudeGetAlertHistory
    \/ GetLiveFlights
    \/ GetFlightDetails
    \/ GetFlightsByTerminal
    \/ GetSummary

SpecQuery == InitQuery /\ [][NextQuery]_vars

-----------------------------------------------------------------------------
(* The ledger alone: storeAlert called again and again for one category.    *)

\* The n-th alert handed to storeAlert.  Alerts are created in pairs whose
\* second is stored first, as by two cycles that overlap, so that the order of
\* storing is not the order of the timestamps.
LedgerAlert(n) ==
    [ id |-> ToString(n),
      timestamp |-> IF n % 2 = 1 THEN n + 1 ELSE n - 1 ]

InitLedger ==
    /\ now = 0
    /\ aircraftPosition = {}
    /\ alertCollision = {}
    /\ alertsCollisionActive = <<>>
    /\ alertLowAltitude = {}
    /\ alertsAltitudeActive = <<>>
    /\ last = NoCall
    /\ writesLeft = 0
    /\ ticksLeft = 0
    /\ cyclesLeft = 0
    /\ faultsLeft = 0
    /\ checkInterval = [service \in Services |-> NoInterval]
    /\ intervals = {}
    /\ running = {}

\* CollisionDetectionService.storeAlert(alert)
CollisionStoreAlertCall ==
    /\ alertLowAltitude = {}
    /\ Cardinality(alertCollision) < MaxInserts
    /\ LET alert == LedgerAlert(Cardinality(alertCollision) + 1)
           ledger == CollisionStoreAlert(
                         [keys |-> alertCollision, active |-> alertsCollisionActive],
                         alert, "ok", now)
       IN  /\ alertCollision' = ledger.keys
           /\ alertsCollisionActive' = ledger.active
           /\ last' = [NoCall EXCEPT !.op = "storeAlert", !.trigger = "collision"]
    /\ UNCHANGED <<now, aircraftPosition, alertLowAltitude, alertsAltitudeActive,
                   budgets, timers, running>>

\* AltitudeCheckService.storeAlert(alert)
AltitudeStoreAlertCall ==
    /\ alertCollision = {}
    /\ Cardinality(alertLowAltitude) < MaxInserts
    /\ LET alert == LedgerAlert(Cardinality(alertLowAltitude) + 1)
           ledger == AltitudeStoreAlert(
                         [keys |-> alertLowAltitude, active |-> alertsAltitudeActive],
                         alert, "ok", now)
       IN  /\ alertLowAltitude' = ledger.keys
           /\ alertsAltitudeActive' = ledger.active
           /\ last' = [NoCall EXCEPT !.op = "storeAlert", !.trigger = "altitude"]
    /\ UNCHANGED <<now, aircraftPosition, alertCollision, alertsCollisionActive,
                   budgets, timers, running>>

NextLedger ==
    \/ CollisionStoreAlertCall
    \/ AltitudeStoreAlertCall

SpecLedger == InitLedger /\ [][NextLedger]_vars

-----------------------------------------------------------------------------
(* The collision ledger: storeAlert command by command *)

(* storeAlert awaits each of its three Redis commands, so the commands of    *)
(* other calls come between them.  An execution of it stands at the command  *)
(* it sends next: "set", "lPush" or "lTrim".                                 *)

\* The alerts that have been handed to storeAlert when the list is full
StoredBefore == ACTIVE_LAST_INDEX + 1

\* The ledger after StoredBefore calls of storeAlert at time 0
InitCap ==
    /\ now = 0
    /\ aircraftPosition = {}
    /\ alertCollision = {[alert |-> LedgerAlert(n), expireAt |-> Seconds(ALERT_TTL_S)] :
                            n \in 1..StoredBefore}
    /\ alertsCollisionActive = [i \in 1..StoredBefore |->
                                   LedgerAlert(StoredBefore + 1 - i)]
    /\ alertLowAltitude = {}
    /\ alertsAltitudeActive = <<>>
    /\ last = NoCall
    /\ writesLeft = 0
    /\ ticksLeft = 0
    /\ cyclesLeft = MaxCycles + 1
    /\ faultsLeft = MaxFaults
    /\ checkInterval = [service \in Services |-> NoInterval]
    /\ intervals = {}
    /\ running = {}

\* A cycle that the timer or a request began calls storeAlert(alert)
StoreAlertBegin ==
    /\ cyclesLeft > 0
    /\ Cardinality(running) < MaxRunning
    /\ \E trigger \in {"timer", "call"} :
        /\ running' = running \cup
               {[NewExecution("storeAlert", trigger) EXCEPT
                    !.pc = "set",
                    !.alerts = <<LedgerAlert(StoredBefore + MaxCycles + 2 - cyclesLeft)>>]}
        /\ last' = [NoCall EXCEPT !.op = "begin", !.identifier = "storeAlert",
                                  !.trigger = trigger]
    /\ cyclesLeft' = cyclesLeft - 1
    /\ UNCHANGED <<now, aircraftPosition, ledgers, writesLeft, ticksLeft,
                   faultsLeft, timers>>

\* storeAlert goes on from an await: Redis runs the command it stands at; a
\* command that throws ends the call in its catch
StoreAlertStep ==
    \E e \in running, fault \in QueryFaults :
        /\ e.op = "storeAlert"
        /\ last' = StepOf(e)
        /\ faultsLeft' = IF fault THEN faultsLeft - 1 ELSE faultsLeft
        /\ IF fault
           THEN /\ running' = running \ {e}
                /\ UNCHANGED ledgers
           ELSE \/ /\ e.pc = "set"
                   /\ alertCollision' = setEX(alertCollision, e.alerts[1],
                                              ALERT_TTL_S, now)
                   /\ running' = (running \ {e}) \cup {[e EXCEPT !.pc = "lPush"]}
                   /\ UNCHANGED <<alertsCollisionActive, alertLowAltitude,
                                  alertsAltitudeActive>>
                \/ /\ e.pc = "lPush"
                   /\ alertsCollisionActive' = lPush(alertsCollisionActive, e.alerts[1])
                   /\ running' = (running \ {e}) \cup {[e EXCEPT !.pc = "lTrim"]}
                   /\ UNCHANGED <<alertCollision, alertLowAltitude,
                                  alertsAltitudeActive>>
                \/ /\ e.pc = "lTrim"
                   /\ alertsCollisionActive' = lTrim(alertsCollisionActive, 0,
                                                     ACTIVE_LAST_INDEX)
                   /\ running' = running \ {e}
                   /\ UNCHANGED <<alertCollision, alertLowAltitude,
                                  alertsAltitudeActive>>
        /\ UNCHANGED <<now, aircraftPosition, writesLeft, ticksLeft, cyclesLeft,
                       timers>>

NextCap ==
    \/ StoreAlertBegin
    \/ StoreAlertStep
    \/ CollisionGetActiveAlerts

SpecCap == InitCap /\ [][NextCap]_vars

-----------------------------------------------------------------------------
(* The detectors over entries that expire while a cycle reads *)

\* What checkLowAltitudeAircraft has gathered when it begins
AltitudeStart ==
    [ alerts |-> <<>>, monitored |-> <<>>,
      ledger |-> [keys |-> {}, active |-> <<>>],
      storeModes |-> <<>>, aborted |-> FALSE ]

\* checkLowAltitudeAircraft() is called on demand
AltitudeBegin ==
    /\ cyclesLeft > 0
    /\ Begin("checkLowAltitudeAircraft", "call")
    /\ cyclesLeft' = cyclesLeft - 1
    /\ last' = [NoCall EXCEPT !.op = "begin",
                              !.identifier = "checkLowAltitudeAircraft",
                              !.trigger = "call"]
    /\ UNCHANGED <<now, aircraftPosition, ledgers, writesLeft, ticksLeft,
                   faultsLeft, timers>>

\* checkLowAltitudeAircraft() goes on: from redis.keys to the hGetAll of the
\* first key; from the hGetAll of a key, by getAirportZoneInfo and storeAlert
\* for an aircraft that is not skipped, to the hGetAll of the next key; after
\* the last key to its return
AltitudeStep ==
    \E e \in running :
        /\ e.op = "checkLowAltitudeAircraft"
        /\ \/ /\ e.pc = "keys"
              /\ \E keys \in Orderings(PositionKeys(aircraftPosition)) :
                     running' = (running \ {e})
                         \cup {[e EXCEPT !.pc = "read", !.keys = keys,
                                         !.items = <<AltitudeStart>>]}
              /\ last' = StepOf(e)
              /\ UNCHANGED ledgers
           \/ /\ e.pc = "read"
              /\ e.k <= Len(e.keys)
              /\ \E zoneInfo \in ZoneInfosFor(aircraftPosition, e.keys[e.k], FALSE) :
                    LET acc == AltitudeLoop(
                                   aircraftPosition, <<e.keys[e.k]>>, 1,
                                   [readFaultAt |-> 0,
                                    zoneInfos |-> <<zoneInfo>>,
                                    modes |-> PlanModes({}, Len(e.keys))],
                                   now,
                                   [e.items[1] EXCEPT
                                       !.ledger = [keys |-> alertLowAltitude,
                                                   active |-> alertsAltitudeActive]])
                    IN  /\ alertLowAltitude' = acc.ledger.keys
                        /\ alertsAltitudeActive' = acc.ledger.active
                        /\ running' = (running \ {e})
                               \cup {[e EXCEPT
                                        !.k = e.k + 1,
                                        !.items = <<[acc EXCEPT
                                                       !.ledger = AltitudeStart.ledger]>>]}
              /\ last' = StepOf(e)
              /\ UNCHANGED <<alertCollision, alertsCollisionActive>>
           \/ /\ e.pc = "read"
              /\ e.k > Len(e.keys)
              /\ running' = running \ {e}
              /\ last' = [ReturnOf(e, e.items[1].alerts) EXCEPT
                             !.totalAircraft = Len(e.items[1].monitored),
                             !.monitoredAircraft = e.items[1].monitored]
              /\ UNCHANGED ledgers
        /\ UNCHANGED <<now, aircraftPosition, budgets, timers>>

\* The time of the second ingestion before the cycles: one millisecond before
\* the entries of the first expire
SecondWrite == Seconds(POSITION_TTL_S) - 1

\* Redis after two ingestions: AUA456 was written at 0, DLH401 and SWR123 at
\* SecondWrite, so that the entry of AUA456 expires first
InitStale ==
    /\ now = SecondWrite
    /\ aircraftPosition =
           storeLivePositions(
               storeLivePositions({}, << Aircraft("AUA456", 3, Feet(400), FALSE) >>,
                                  1, 0, 0),
               << Aircraft("DLH401", 3, Feet(300), FALSE),
                  Aircraft("SWR123", 2, Feet(500), FALSE) >>,
               1, 0, SecondWrite)
    /\ alertCollision = {}
    /\ alertsCollisionActive = <<>>
    /\ alertLowAltitude = {}
    /\ alertsAltitudeActive = <<>>
    /\ last = NoCall
    /\ writesLeft = 0
    /\ ticksLeft = 1
    /\ cyclesLeft = MaxCycles
    /\ faultsLeft = 0
    /\ checkInterval = [service \in Services |-> NoInterval]
    /\ intervals = {}
    /\ running = {}

NextStale ==
    \/ CollisionBegin
    \/ CollisionStep
    \/ AltitudeBegin
    \/ AltitudeStep
    \/ Tick

SpecStale == InitStale /\ [][NextStale]_vars

-----------------------------------------------------------------------------
(* generateDemoData.js: the collision scenario *)

\* "Collision risk pair 1" of DEMO_FLIGHTS
DEMO_FLIGHTS ==
    << Aircraft("SWR123", 6, Feet(25000), FALSE),
       Aircraft("AUA456", 7, Feet(25500), FALSE) >>

\* The loop of generateDemoData over the flights from the k-th on: one hSet
\* for each, and no expire
RECURSIVE storeDemoFlights(_, _, _)
storeDemoFlights(store, flights, k) ==
    IF k > Len(flights)
    THEN store
    ELSE storeDemoFlights(
             hSet(store, PositionKey(flights[k].callsign),
                  [ callsign |-> flights[k].callsign,
                    latitude |-> flights[k].latitude,
                    longitude |-> flights[k].longitude,
                    altitude |-> flights[k].altitude,
                    on_ground |-> BoolToString(flights[k].on_ground) ]),
             flights, k + 1)

\* generateDemoData(): the keys of the pattern aircraft:*:position are
\* deleted, then the demo flights are stored
GenerateDemoData ==
    /\ writesLeft > 0
    /\ aircraftPosition' = storeDemoFlights({}, DEMO_FLIGHTS, 1)
    /\ last' = [NoCall EXCEPT !.op = "generateDemoData",
                              !.positions = DEMO_FLIGHTS]
    /\ writesLeft' = writesLeft - 1
    /\ UNCHANGED <<now, ledgers, ticksLeft, cyclesLeft, faultsLeft, timers, running>>

InitDemo ==
    /\ now = 0
    /\ aircraftPosition = {}
    /\ alertCollision = {}
    /\ alertsCollisionActive = <<>>
    /\ alertLowAltitude = {}
    /\ alertsAltitudeActive = <<>>
    /\ last = NoCall
    /\ writesLeft = 1
    /\ ticksLeft = MaxTicks
    /\ cyclesLeft = MaxCycles
    /\ faultsLeft = MaxFaults
    /\ checkInterval = [service \in Services |-> NoInterval]
    /\ intervals = {}
    /\ running = {}

NextDemo ==
    \/ GenerateDemoData
    \/ CheckCollisionRisks
    \/ Tick
    \/ CollisionGetActiveAlerts
    \/ CollisionGetAlertHistory

SpecDemo == InitDemo /\ [][NextDemo]_vars

-----------------------------------------------------------------------------
(* One collision cycle over two aircraft whose altitudes are not whole feet *)

\* Altitudes as the provider reports them, metres times 3.28084: 300 ft,
\* 799.6 ft and 1299.6 ft
RoundAltitudes == {Feet(300), Feet(800) - 4, Feet(1300) - 4}

RoundGrid(callsign) ==
    {Aircraft(callsign, p, a, FALSE) : p \in DOMAIN Points, a \in RoundAltitudes}

InitRound ==
    /\ now = 0
    /\ aircraftPosition \in
           {storeLivePositions({}, <<first, second>>, 1, 0, 0) :
                first \in RoundGrid("DLH401"), second \in RoundGrid("SWR123")}
    /\ alertCollision = {}
    /\ alertsCollisionActive = <<>>
    /\ alertLowAltitude = {}
    /\ alertsAltitudeActive = <<>>
    /\ last = NoCall
    /\ writesLeft = 0
    /\ ticksLeft = 1
    /\ cyclesLeft = 1
    /\ faultsLeft = 0
    /\ checkInterval = [service \in Services |-> NoInterval]
    /\ intervals = {}
    /\ running = {}

NextRound ==
    \/ CheckCollisionRisks
    \/ Tick

SpecRound == InitRound /\ [][NextRound]_vars

-----------------------------------------------------------------------------
(* AltitudeCheckService: the status of one aircraft *)

\* getAircraftAltitudeStatus(callsign): <<the status>>, or <<>> for null.
\* zoneInfo is what getAirportZoneInfo returns to isInAirportZone; fault says
\* that the hGetAll throws.  The hash of a missing key has no altitude.
getAircraftAltitudeStatus(store, callsign, zoneInfo, fault, t) ==
    LET data == hGetAll(store, PositionKey(callsign))
    IN  IF fault \/ data = <<>>
        THEN <<>>
        ELSE << [ callsign |-> callsign,
                  altitude |-> data[1].altitude,
                  position |-> [ latitude |-> data[1].latitude,
                                 longitude |-> data[1].longitude ],
                  inAirportZone |-> zoneInfo.inZone,
                  isSafe |-> (data[1].altitude >= Feet(MIN_SAFE_ALTITUDE_FT)
                                 \/ zoneInfo.inZone),
                  minSafeAltitude |-> MIN_SAFE_ALTITUDE_FT,
                  timestamp |-> t ] >>

\* The call of getAircraftAltitudeStatus that fails, if one does
StatusSites == IF faultsLeft > 0 THEN {"none", "redis", "zone"} ELSE {"none"}

\* AltitudeCheckService.getAircraftAltitudeStatus(callsign)
GetAircraftAltitudeStatus ==
    \E callsign \in Callsigns, site \in StatusSites :
      \E zoneInfo \in ZoneInfosFor(aircraftPosition, PositionKey(callsign),
                                   site = "zone") :
        /\ last' = [NoCall EXCEPT
                       !.op = "getAircraftAltitudeStatus",
                       !.identifier = callsign,
                       !.faults = IF site = "none" THEN {}
                                  ELSE {[call |-> site, index |-> 1, mode |-> "throw"]},
                       !.aborted = (site = "redis"),
                       !.status = getAircraftAltitudeStatus(
                                      aircraftPosition, callsign, zoneInfo,
                                      site = "redis", now)]
        /\ QueryFrame(site # "none")

\* The fleets of the status queries: DLH401 over the grid or parked below the
\* minimum outside every zone, SWR123 absent, low in a zone, or parked there
StatusBatches ==
    { first \o second :
        first \in {<<>>} \cup {<<a>> : a \in SweepGrid("DLH401")
                                         \cup {Aircraft("DLH401", 3, Feet(300), TRUE)}},
        second \in { <<>>,
                     <<Aircraft("SWR123", 2, Feet(500), FALSE)>>,
                     <<Aircraft("SWR123", 2, Feet(500), TRUE)>> } }

InitStatus ==
    /\ now = 0
    /\ aircraftPosition \in {storeLivePositions({}, b, 1, 0, 0) : b \in StatusBatches}
    /\ alertCollision = {}
    /\ alertsCollisionActive = <<>>
    /\ alertLowAltitude = {}
    /\ alertsAltitudeActive = <<>>
    /\ last = NoCall
    /\ writesLeft = 0
    /\ ticksLeft = 0
    /\ cyclesLeft = 1
    /\ faultsLeft = MaxFaults
    /\ checkInterval = [service \in Services |-> NoInterval]
    /\ intervals = {}
    /\ running = {}

NextStatus ==
    \/ GetAircraftAltitudeStatus
    \/ CheckLowAltitudeAircraft

SpecStatus == InitStatus /\ [][NextStatus]_vars

-----------------------------------------------------------------------------
(* Properties *)

AfterCollisionCycle == last.op = "checkCollisionRisks" /\ ~last.aborted
AfterAltitudeCycle == last.op = "checkLowAltitudeAircraft" /\ ~last.aborted

\* The live aircraft that are not on the ground.  A cycle changes neither the
\* position store nor the clock, so after a cycle these are the aircraft that
\* were live when it ran.
LiveAirborne == {e \in aircraftPosition : e.callsign # "" /\ e.on_ground # "true"}
LiveGrounded == {e \in aircraftPosition : e.on_ground = "true"}

HorizontalDistance(a, b) ==
    HaversineMetres[PointIndex(a.latitude, a.longitude)]
                   [PointIndex(b.latitude, b.longitude)]

AltitudeDifference(a, b) == Abs(a.altitude - b.altitude)

\* The alerts a collision cycle returned for the unordered pair {c, d}
ReturnedFor(c, d) ==
    {k \in DOMAIN last.alerts :
        {last.alerts[k].aircraft1, last.alerts[k].aircraft2} = {c, d}}

\* Whether storeAlert ran to its end for the k-th alert of the cycle
StoredOk(k) == last.storeModes[k] = "ok"

CollisionLedgerAlerts ==
    {e.alert : e \in alertCollision} \cup Range(alertsCollisionActive)

\* C1: a collision cycle that is not aborted returns an alert for a pair of
\* live airborne aircraft if and only if their distance is below 5 km and
\* their altitude difference below 1000 ft; every returned alert names such a
\* pair and, unless its storeAlert call failed, is in the collision ledger
\* under its own key and in the active list; no alert in the ledger records a
\* pair 5 km or more apart or 1000 ft or more apart in altitude.
C1_AlertIffUnsafe ==
    /\ AfterCollisionCycle =>
        /\ \A a, b \in LiveAirborne :
              a.callsign # b.callsign =>
                  ( ReturnedFor(a.callsign, b.callsign) # {}
                      <=> ( HorizontalDistance(a, b) < 5000
                            /\ AltitudeDifference(a, b) < 10000 ) )
        /\ \A k \in DOMAIN last.alerts :
              /\ \E a, b \in LiveAirborne :
                    /\ a.callsign # b.callsign
                    /\ last.alerts[k].aircraft1 = a.callsign
                    /\ last.alerts[k].aircraft2 = b.callsign
              /\ StoredOk(k) =>
                    /\ [alert |-> last.alerts[k],
                        expireAt |-> now + 300000] \in alertCollision
                    /\ last.alerts[k] \in Range(alertsCollisionActive)
    /\ \A x \in CollisionLedgerAlerts :
          /\ HorizontalDistance(x.positions.aircraft1, x.positions.aircraft2) < 5000
          /\ AltitudeDifference(x.positions.aircraft1, x.positions.aircraft2) < 10000

\* C1 witness: a cycle returned and stored an alert while another live airborne
\* pair, less than 5 km apart and exactly 1000 ft apart in altitude, got none.
C1_Witness ==
    /\ AfterCollisionCycle
    /\ last.alerts # <<>>
    /\ alertsCollisionActive # <<>>
    /\ \E a, b \in LiveAirborne :
          /\ a.callsign # b.callsign
          /\ HorizontalDistance(a, b) < 5000
          /\ AltitudeDifference(a, b) = 10000
          /\ ReturnedFor(a.callsign, b.callsign) = {}

\* The severity rule as the specification states it
CollisionSeverityRule(distance, altitudeDiff) ==
    IF distance < 2000 /\ altitudeDiff < 5000
    THEN "CRITICAL"
    ELSE IF distance < 3000 /\ altitudeDiff < 7000 THEN "HIGH" ELSE "MEDIUM"

\* C2: every collision alert, returned or in the ledger, has the severity of
\* the first rule that matches the pair it records: CRITICAL below 2 km and
\* 500 ft, else HIGH below 3 km and 700 ft, else MEDIUM; no other value occurs.
C2_SeverityFirstMatch ==
    \A x \in CollisionLedgerAlerts
              \cup (IF last.op = "checkCollisionRisks" THEN Range(last.alerts) ELSE {}) :
        /\ x.severity \in {"CRITICAL", "HIGH", "MEDIUM"}
        /\ x.severity =
             CollisionSeverityRule(
                 HorizontalDistance(x.positions.aircraft1, x.positions.aircraft2),
                 AltitudeDifference(x.positions.aircraft1, x.positions.aircraft2))

\* C2 witness: one cycle returned a CRITICAL alert and a HIGH alert for a pair
\* less than 2 km and exactly 500 ft apart, and stored both.
C2_Witness ==
    /\ AfterCollisionCycle
    /\ \E i, j \in DOMAIN last.alerts :
          /\ last.alerts[i].severity = "CRITICAL"
          /\ last.alerts[j].severity = "HIGH"
          /\ last.alerts[j].distance < 200
          /\ last.alerts[j].altitudeDiff = 500
          /\ {last.alerts[i], last.alerts[j]} \subseteq Range(alertsCollisionActive)

\* C3: in a collision cycle every unordered pair of distinct live airborne
\* aircraft is evaluated exactly once and no aircraft is paired with itself, so
\* at most one alert is returned for a pair; and an alert is returned for the
\* pair exactly when checkPairCollision gives one, in whichever order the two
\* aircraft are handed to it.
C3_EachPairOnce ==
    AfterCollisionCycle /\ Len(last.keys) >= 2 =>
        /\ \A k \in DOMAIN last.evaluated :
              /\ last.evaluated[k][1] # last.evaluated[k][2]
              /\ \A i \in 1..2 :
                    \E a \in LiveAirborne : a.callsign = last.evaluated[k][i]
        /\ \A a, b \in LiveAirborne :
              a.callsign # b.callsign =>
                  /\ Cardinality({k \in DOMAIN last.evaluated :
                        last.evaluated[k] \in {<<a.callsign, b.callsign>>,
                                               <<b.callsign, a.callsign>>}}) = 1
                  /\ Cardinality(ReturnedFor(a.callsign, b.callsign)) <= 1
                  /\ ( ReturnedFor(a.callsign, b.callsign) # {}
                         <=> checkPairCollision(a, b, now) # <<>> )
                  /\ ( ReturnedFor(a.callsign, b.callsign) # {}
                         <=> checkPairCollision(b, a, now) # <<>> )

\* C3 witness: three live airborne aircraft, three evaluations, two alerts.
C3_Witness ==
    /\ AfterCollisionCycle
    /\ Cardinality(LiveAirborne) = 3
    /\ Len(last.evaluated) = 3
    /\ Len(last.alerts) = 2

-----------------------------------------------------------------------------

\* Whether the point of a live aircraft is in no zone of the index
OutsideEveryZone(a) ==
    \A z \in Zones :
        CentreMetres[PointIndex(a.latitude, a.longitude)] >= z.radiusMeters

\* The alerts an altitude cycle returned for a callsign
AlertsFor(c) == {k \in DOMAIN last.alerts : last.alerts[k].callsign = c}

MonitoredFor(c) ==
    {k \in DOMAIN last.monitoredAircraft : last.monitoredAircraft[k].callsign = c}

\* storeAlert is called for the alerts that are not SAFE, in their order: the
\* number of the storeAlert call made for the k-th returned alert
StoreCallOf(k) ==
    Cardinality({i \in 1..k : last.alerts[i].severity # "SAFE"})

AltitudeLedgerAlerts ==
    {e.alert : e \in alertLowAltitude} \cup Range(alertsAltitudeActive)

\* Whether the zone lookup made for a live aircraft threw
LookupFailedFor(a) ==
    \E f \in last.faults :
        /\ f.call = "getAirportZoneInfo"
        /\ f.index \in DOMAIN last.keys
        /\ last.keys[f.index] = a.key

\* The severity rule as the specification states it
AltitudeSeverityRule(altitude) ==
    IF altitude < 5000
    THEN "CRITICAL"
    ELSE IF 5000 <= altitude /\ altitude < 7500 THEN "HIGH" ELSE "MEDIUM"

\* C4: after an altitude cycle that is not aborted, every live airborne
\* aircraft below 1000 ft whose point is in no zone has exactly one returned
\* alert; the alert has inAirportZone false and severity CRITICAL below 500 ft,
\* HIGH from 500 to below 750 ft, MEDIUM otherwise; and, unless its storeAlert
\* call failed, it is in the altitude ledger under its own key and in the
\* active list.
C4_LowOutsideAlerted ==
    AfterAltitudeCycle =>
        \A a \in LiveAirborne :
            (a.altitude < 10000 /\ OutsideEveryZone(a)) =>
                /\ Cardinality(AlertsFor(a.callsign)) = 1
                /\ \A k \in AlertsFor(a.callsign) :
                      /\ last.alerts[k].inAirportZone = FALSE
                      /\ last.alerts[k].altitude = a.altitude
                      /\ last.alerts[k].severity = AltitudeSeverityRule(a.altitude)
                      /\ last.storeModes[StoreCallOf(k)] = "ok" =>
                            /\ [alert |-> last.alerts[k],
                                expireAt |-> now + 300000] \in alertLowAltitude
                            /\ last.alerts[k] \in Range(alertsAltitudeActive)

\* C4 witness: one cycle returned and stored a CRITICAL alert, a HIGH alert
\* for an aircraft at exactly 500 ft and a MEDIUM alert for one at exactly
\* 750 ft, all three outside every zone.
C4_Witness ==
    /\ AfterAltitudeCycle
    /\ \E i, j, k \in DOMAIN last.alerts :
          /\ last.alerts[i].severity = "CRITICAL"
          /\ last.alerts[j].severity = "HIGH" /\ last.alerts[j].altitude = 5000
          /\ last.alerts[k].severity = "MEDIUM" /\ last.alerts[k].altitude = 7500
          /\ {last.alerts[i], last.alerts[j], last.alerts[k]}
                 \subseteq Range(alertsAltitudeActive)
    /\ \A a \in LiveAirborne : OutsideEveryZone(a)

\* C5: no alert of severity SAFE is ever in the altitude ledger, neither under
\* a key nor in the active list; and after an altitude cycle that is not
\* aborted, every live airborne aircraft below 1000 ft whose point is in a
\* zone, and whose zone lookup did not fail, has exactly one returned alert,
\* of severity SAFE with inAirportZone true.
C5_SafeNeverStored ==
    /\ \A x \in AltitudeLedgerAlerts : x.severity # "SAFE"
    /\ AfterAltitudeCycle =>
          \A a \in LiveAirborne :
              (a.altitude < 10000 /\ ~OutsideEveryZone(a) /\ ~LookupFailedFor(a)) =>
                  /\ Cardinality(AlertsFor(a.callsign)) = 1
                  /\ \A k \in AlertsFor(a.callsign) :
                        /\ last.alerts[k].severity = "SAFE"
                        /\ last.alerts[k].inAirportZone = TRUE

\* C5 witness: a second altitude cycle returned a SAFE alert and a risk alert
\* and stored the risk alert, on top of what the first cycle stored.
C5_Witness ==
    /\ AfterAltitudeCycle
    /\ \E i, j \in DOMAIN last.alerts :
          /\ last.alerts[i].severity = "SAFE"
          /\ last.alerts[j].severity # "SAFE"
          /\ last.alerts[j] \in Range(alertsAltitudeActive)
    /\ Len(alertsAltitudeActive) >= 2

\* C6: after an altitude cycle that is not aborted, monitoredAircraft has
\* exactly one entry for every live airborne aircraft, carrying its position
\* and altitude, and no other entry; totalAircraft is its length.
C6_MonitoredSnapshot ==
    AfterAltitudeCycle =>
        /\ \A a \in LiveAirborne :
              /\ Cardinality(MonitoredFor(a.callsign)) = 1
              /\ \A k \in MonitoredFor(a.callsign) :
                    /\ last.monitoredAircraft[k].altitude = a.altitude
                    /\ last.monitoredAircraft[k].latitude = a.latitude
                    /\ last.monitoredAircraft[k].longitude = a.longitude
        /\ \A k \in DOMAIN last.monitoredAircraft :
              \E a \in LiveAirborne : a.callsign = last.monitoredAircraft[k].callsign
        /\ last.totalAircraft = Len(last.monitoredAircraft)
        /\ last.totalAircraft = Cardinality(LiveAirborne)

\* C6 witness: of three live aircraft one is on the ground; the snapshot has
\* the other two, one high in a zone and one low outside every zone.
C6_Witness ==
    /\ AfterAltitudeCycle
    /\ Len(last.keys) = 3
    /\ last.totalAircraft = 2
    /\ \E i, j \in DOMAIN last.monitoredAircraft :
          /\ last.monitoredAircraft[i].altitude >= 10000
          /\ last.monitoredAircraft[i].inAirportZone = TRUE
          /\ last.monitoredAircraft[j].altitude < 10000
          /\ last.monitoredAircraft[j].inAirportZone = FALSE

\* C7: after an altitude cycle on an empty ledger, a live airborne aircraft at
\* 1000 ft or above has no returned alert of any severity and no alert in the
\* altitude ledger, and has its entry in monitoredAircraft.
C7_SafeAltitudeNoAlert ==
    AfterAltitudeCycle =>
        \A a \in LiveAirborne :
            a.altitude >= 10000 =>
                /\ AlertsFor(a.callsign) = {}
                /\ \A x \in AltitudeLedgerAlerts : x.callsign # a.callsign
                /\ Cardinality(MonitoredFor(a.callsign)) = 1

\* C7 witness: an aircraft at exactly 1000 ft outside every zone, monitored and
\* without alert, in a cycle that stored an alert for a lower one.
C7_Witness ==
    /\ AfterAltitudeCycle
    /\ alertsAltitudeActive # <<>>
    /\ \E a \in LiveAirborne :
          /\ a.altitude = 10000
          /\ OutsideEveryZone(a)
          /\ AlertsFor(a.callsign) = {}
          /\ MonitoredFor(a.callsign) # {}

-----------------------------------------------------------------------------

GroundedCallsigns == {g.callsign : g \in LiveGrounded}

\* C8: what a cycle of either detector returns names no aircraft that was
\* live with on_ground true when the cycle ran: not in a collision alert, an
\* evaluated pair or the positions kept, not in an altitude alert or the
\* monitored snapshot.
C8_GroundedExcluded ==
    /\ last.op = "checkCollisionRisks" =>
          /\ \A k \in DOMAIN last.alerts :
                /\ last.alerts[k].aircraft1 \notin GroundedCallsigns
                /\ last.alerts[k].aircraft2 \notin GroundedCallsigns
          /\ \A k \in DOMAIN last.evaluated :
                /\ last.evaluated[k][1] \notin GroundedCallsigns
                /\ last.evaluated[k][2] \notin GroundedCallsigns
          /\ \A k \in DOMAIN last.positions :
                last.positions[k].callsign \notin GroundedCallsigns
    /\ last.op = "checkLowAltitudeAircraft" =>
          /\ \A k \in DOMAIN last.alerts :
                last.alerts[k].callsign \notin GroundedCallsigns
          /\ \A k \in DOMAIN last.monitoredAircraft :
                last.monitoredAircraft[k].callsign \notin GroundedCallsigns

\* C8 witness: an altitude cycle returned an alert while a live aircraft on
\* the ground was below 1000 ft outside every zone.
C8_Witness ==
    /\ AfterAltitudeCycle
    /\ last.alerts # <<>>
    /\ \E g \in LiveGrounded : g.altitude < 10000 /\ OutsideEveryZone(g)

\* A step that is a collision cycle
CollisionCycleStep ==
    /\ cyclesLeft' = cyclesLeft - 1
    /\ last'.op = "checkCollisionRisks"

\* C9: a collision cycle that runs while fewer than two live airborne aircraft
\* exist returns the empty list and leaves the collision ledger, keys and
\* active list, as it was.
C9_FewerThanTwo ==
    [][ (CollisionCycleStep /\ Cardinality(LiveAirborne) < 2) =>
            /\ last'.alerts = <<>>
            /\ alertCollision' = alertCollision
            /\ alertsCollisionActive' = alertsCollisionActive ]_vars

\* C9 witness: a cycle over two live entries, one of them on the ground,
\* returned nothing; the ledger holds an alert of an earlier cycle.
C9_Witness ==
    /\ AfterCollisionCycle
    /\ Len(last.keys) >= 2
    /\ Cardinality(LiveAirborne) = 1
    /\ LiveGrounded # {}
    /\ last.alerts = <<>>
    /\ alertsCollisionActive # <<>>

\* The alerts of a cycle that storeAlert pushed onto the active list
PushedBy(call) ==
    {k \in DOMAIN call.alerts : call.storeModes[k] \in {"ok", "lTrim"}}

\* C10: every collision cycle that is not aborted returns an alert for every
\* unsafe pair of live airborne aircraft, whatever the ledger already holds,
\* and puts each alert whose push did not fail in front of the active list,
\* which keeps its earlier entries behind them.
C10_NoDeduplication ==
    [][ (CollisionCycleStep /\ ~last'.aborted) =>
            LET new == Cardinality(PushedBy(last'))
            IN  /\ \A a, b \in LiveAirborne :
                      ( /\ a.callsign # b.callsign
                        /\ HorizontalDistance(a, b) < 5000
                        /\ AltitudeDifference(a, b) < 10000 ) =>
                          \E k \in DOMAIN last'.alerts :
                              {last'.alerts[k].aircraft1, last'.alerts[k].aircraft2}
                                  = {a.callsign, b.callsign}
                /\ Len(alertsCollisionActive') = Len(alertsCollisionActive) + new
                /\ SubSeq(alertsCollisionActive', new + 1, Len(alertsCollisionActive'))
                      = alertsCollisionActive
                /\ \A k \in PushedBy(last') :
                      \E i \in 1..new : alertsCollisionActive'[i] = last'.alerts[k] ]_vars

\* C10 witness: after a second cycle the active list has two entries for the
\* same pair, the newer in front.
C10_Witness ==
    /\ AfterCollisionCycle
    /\ Len(last.alerts) = 1
    /\ Len(alertsCollisionActive) = 2
    /\ alertsCollisionActive[1] = last.alerts[1]
    /\ alertsCollisionActive[1].aircraft1 = alertsCollisionActive[2].aircraft1
    /\ alertsCollisionActive[1].aircraft2 = alertsCollisionActive[2].aircraft2
    /\ alertsCollisionActive[1].timestamp > alertsCollisionActive[2].timestamp

-----------------------------------------------------------------------------

\* The calls of the last cycle that threw
ReadFaults(call) == {f \in call.faults : f.call = "read"}
StoreFaults(call) == {f \in call.faults : f.call = "storeAlert"}

\* Whether a collision cycle returned an alert for every unsafe pair of live
\* airborne aircraft
EveryUnsafePairReturned(call) ==
    \A a, b \in LiveAirborne :
        ( /\ a.callsign # b.callsign
          /\ HorizontalDistance(a, b) < 5000
          /\ AltitudeDifference(a, b) < 10000 ) =>
            \E k \in DOMAIN call.alerts :
                {call.alerts[k].aircraft1, call.alerts[k].aircraft2}
                    = {a.callsign, b.callsign}

-----------------------------------------------------------------------------

\* A step that is a cycle of either detector
DetectorCycleStep ==
    /\ cyclesLeft' = cyclesLeft - 1
    /\ last'.op \in {"checkCollisionRisks", "checkLowAltitudeAircraft"}

\* The detector a recorded cycle belongs to
ServiceOf(call) ==
    IF call.op = "checkCollisionRisks" THEN "collision" ELSE "altitude"

\* C12: a cycle of either detector returns to its caller whatever call failed
\* in it; a cycle that a failed read aborted returns the empty result and does
\* nothing after the failing read (no second attempt); a cycle begun by the
\* timer or by startMonitoring, failed or not, leaves the timer set, so that
\* the next cycle is the one the timer begins.
C12_FailedCycleKeepsTimer ==
    [][ DetectorCycleStep =>
          /\ ~last'.threw
          /\ last'.aborted <=> ReadFaults(last') # {}
          /\ last'.aborted =>
                /\ last'.alerts = <<>>
                /\ last'.evaluated = <<>>
                /\ last'.monitoredAircraft = <<>>
                /\ last'.totalAircraft = 0
                /\ \A f \in ReadFaults(last') :
                      \/ f.index = 1 /\ last'.storeModes = <<>>
                      \/ f.index >= 2 /\ Len(last'.storeModes) + 2 <= f.index
          /\ last'.trigger \in {"timer", "start"} =>
                /\ \E h \in intervals' : h.service = ServiceOf(last')
                /\ intervals \subseteq intervals'
          /\ last'.trigger = "timer" =>
                /\ intervals' = intervals
                /\ checkInterval' = checkInterval ]_vars

\* C12 witness: the timer began a cycle right after a cycle of the same
\* detector that a failed read had aborted, and this cycle returned alerts.
C12_Witness ==
    /\ last.trigger = "timer"
    /\ last.afterFailure
    /\ ~last.aborted
    /\ last.alerts # <<>>
    /\ faultsLeft < MaxFaults

-----------------------------------------------------------------------------

\* What an altitude cycle returns for a live airborne aircraft whose point is
\* or is not in a zone, when its lookup did not fail
ClassifiedByGeometry(a) ==
    /\ Cardinality(MonitoredFor(a.callsign)) = 1
    /\ \A k \in MonitoredFor(a.callsign) :
          last.monitoredAircraft[k].inAirportZone = ~OutsideEveryZone(a)
    /\ IF a.altitude >= 10000
       THEN AlertsFor(a.callsign) = {}
       ELSE /\ Cardinality(AlertsFor(a.callsign)) = 1
            /\ \A k \in AlertsFor(a.callsign) :
                  /\ last.alerts[k].inAirportZone = ~OutsideEveryZone(a)
                  /\ (last.alerts[k].severity = "SAFE") <=> ~OutsideEveryZone(a)

\* C13: an altitude cycle in which no Redis read failed is not aborted; in it
\* an aircraft whose zone lookup failed is monitored as not in a zone with
\* airport, zone and distance null, and gets a risk alert if it is below
\* 1000 ft; every other live airborne aircraft is classified by where it is.
C13_LookupFailureIsolated ==
    (last.op = "checkLowAltitudeAircraft" /\ ReadFaults(last) = {}) =>
        /\ ~last.aborted
        /\ \A a \in LiveAirborne :
              IF LookupFailedFor(a)
              THEN /\ Cardinality(MonitoredFor(a.callsign)) = 1
                   /\ \A k \in MonitoredFor(a.callsign) :
                         /\ last.monitoredAircraft[k].inAirportZone = FALSE
                         /\ last.monitoredAircraft[k].airportName = "null"
                         /\ last.monitoredAircraft[k].zoneName = "null"
                         /\ last.monitoredAircraft[k].distanceToAirport = 0 - 1
                   /\ a.altitude < 10000 =>
                         \E k \in AlertsFor(a.callsign) :
                             last.alerts[k].severity # "SAFE"
              ELSE ClassifiedByGeometry(a)

\* C13 witness: the lookup failed for an aircraft that is in a zone, which got
\* a HIGH alert instead of a SAFE one, while an aircraft outside every zone, whose
\* lookup did not fail, got its CRITICAL alert in the same cycle.
C13_Witness ==
    /\ AfterAltitudeCycle
    /\ \E a, b \in LiveAirborne :
          /\ LookupFailedFor(a) /\ ~OutsideEveryZone(a)
          /\ \E k \in AlertsFor(a.callsign) : last.alerts[k].severity = "HIGH"
          /\ ~LookupFailedFor(b)
          /\ \E k \in AlertsFor(b.callsign) : last.alerts[k].severity = "CRITICAL"

-----------------------------------------------------------------------------

\* The zones that contain the point of a live aircraft; having one centre,
\* they are equally near to it
NearestContainingZones(a) ==
    LET d == CentreMetres[PointIndex(a.latitude, a.longitude)]
    IN  {z \in Zones : d < z.radiusMeters}

\* C14 as stated: what getAirportZoneInfo returned for a live airborne aircraft
\* in a cycle without failing call says inZone exactly when a zone is nearer
\* than its radius, then with that zone, its airport and the distance; and
\* otherwise says inZone false, zoneName null, and the nearest airport with
\* the distance to it.
C14_ZoneInfoAsSpecified ==
    (AfterAltitudeCycle /\ last.faults = {}) =>
        \A a \in LiveAirborne : \A k \in MonitoredFor(a.callsign) :
            LET info == last.monitoredAircraft[k]
                d == CentreMetres[PointIndex(a.latitude, a.longitude)]
            IN  IF NearestContainingZones(a) # {}
                THEN /\ info.inAirportZone = TRUE
                     /\ info.zoneName \in {z.name : z \in NearestContainingZones(a)}
                     /\ info.airportName = "Frankfurt Airport"
                     /\ info.distanceToAirport = (d + 5) \div 10
                ELSE /\ info.inAirportZone = FALSE
                     /\ info.zoneName = "null"
                     /\ info.airportName = "Frankfurt Airport"
                     /\ info.distanceToAirport = (d + 5) \div 10

-----------------------------------------------------------------------------

\* C15 as stated: two calls of getAirportZoneInfo with the same point, here
\* those made for two aircraft at one point in a cycle without failing call,
\* return the same inZone, airportName, zoneName and distance.
C15_ZoneInfoDeterministic ==
    (AfterAltitudeCycle /\ last.faults = {}) =>
        \A i, j \in DOMAIN last.monitoredAircraft :
            LET first == last.monitoredAircraft[i]
                second == last.monitoredAircraft[j]
            IN  (first.latitude = second.latitude
                    /\ first.longitude = second.longitude) =>
                    /\ first.inAirportZone = second.inAirportZone
                    /\ first.airportName = second.airportName
                    /\ first.zoneName = second.zoneName
                    /\ first.distanceToAirport = second.distanceToAirport

-----------------------------------------------------------------------------

\* The active list holds the latest alerts stored, the latest first, and
\* at most 100 of them; keys holds every alert stored so far
LatestFirst(keys, active) ==
    LET n == Cardinality(keys)
    IN  /\ Len(active) = IF n < 100 THEN n ELSE 100
        /\ \A i \in 1..Len(active) : active[i].id = ToString(n - i + 1)

\* C16: after n completed storeAlert calls of one detector its active list
\* holds min(n, 100) alerts, which are the last stored, the last stored first,
\* whatever their timestamps.
C16_ActiveListLatestFirst ==
    /\ LatestFirst(alertCollision, alertsCollisionActive)
    /\ LatestFirst(alertLowAltitude, alertsAltitudeActive)

\* C16 witness: after 150 calls the list holds the alerts 150 down to 51, its
\* first two out of the order of their timestamps; the key of the first alert
\* stored is still there.
C16_Witness ==
    /\ Cardinality(alertCollision) = 150
    /\ Len(alertsCollisionActive) = 100
    /\ alertsCollisionActive[1].id = "150"
    /\ alertsCollisionActive[100].id = "51"
    /\ alertsCollisionActive[1].timestamp < alertsCollisionActive[2].timestamp
    /\ \E e \in alertCollision : e.alert.id = "1" /\ e.expireAt > now

-----------------------------------------------------------------------------

\* A step turns the list old into the list new by pushing alerts at its front
\* and trimming it to 100 entries, or leaves it as it is
PushedAndTrimmed(old, new) ==
    \E k \in 0..Len(new) :
        /\ Len(new) - k <= Len(old)
        /\ SubSeq(new, k + 1, Len(new)) = SubSeq(old, 1, Len(new) - k)
        /\ Len(new) - k < Len(old) => Len(new) = ACTIVE_LAST_INDEX + 1

\* The alerts of a list whose key was written the alert TTL ago or earlier
WrittenTtlAgo(list) ==
    {i \in DOMAIN list : now - list[i].timestamp >= Seconds(ALERT_TTL_S)}

HistoryStep == last'.op = "getAlertHistory"

\* C17: getAlertHistory returns no alert whose key was written 300 s ago or
\* earlier, also when the active list still holds the alert; no step removes
\* an entry of an active list except by trimming it to 100 entries after a
\* push, and the passing of time leaves both lists as they are.
C17_HistoryByTtlListByTrim ==
    [][ /\ HistoryStep =>
            \A i \in DOMAIN last'.alerts :
                now' - last'.alerts[i].timestamp < Seconds(ALERT_TTL_S)
        /\ PushedAndTrimmed(alertsCollisionActive, alertsCollisionActive')
        /\ PushedAndTrimmed(alertsAltitudeActive, alertsAltitudeActive')
        /\ now' # now =>
               UNCHANGED <<alertsCollisionActive, alertsAltitudeActive>> ]_vars

\* C17 witness: getAlertHistory of the collision detector has returned the
\* alert of the second cycle and not the alert of the first, which was written
\* 300 s ago and is still in the active list.
C17_Witness ==
    /\ last.op = "getAlertHistory"
    /\ last.trigger = "collision"
    /\ ~ last.aborted
    /\ Len(last.alerts) = 1
    /\ Len(alertsCollisionActive) = 2
    /\ WrittenTtlAgo(alertsCollisionActive) = {2}
    /\ last.alerts[1] = alertsCollisionActive[1]

-----------------------------------------------------------------------------

\* The alerts Redis holds under the keys of one detector
LiveAlerts(service) ==
    {e.alert : e \in Unexpired(IF service = "collision"
                                THEN alertCollision ELSE alertLowAltitude, now)}

\* The greatest timestamp first
TimestampDescending(alerts) ==
    \A i, j \in DOMAIN alerts :
        i < j => alerts[i].timestamp >= alerts[j].timestamp

\* C18: what getAlertHistory(limit) of a detector returns has at most limit
\* alerts, each of them an alert that Redis holds under a key of that detector
\* and none of them twice, the greatest timestamp first; when a Redis call
\* fails it returns the empty list and throws nothing.
C18_HistoryLimitedLiveSorted ==
    last.op = "getAlertHistory" =>
        /\ Len(last.alerts) <= last.limit
        /\ \A i \in DOMAIN last.alerts : last.alerts[i] \in LiveAlerts(last.trigger)
        /\ \A i, j \in DOMAIN last.alerts : i # j => last.alerts[i] # last.alerts[j]
        /\ TimestampDescending(last.alerts)
        /\ ~ last.threw
        /\ last.aborted => last.alerts = <<>>

\* C18 witness: getAlertHistory(1) of the altitude detector has returned one
\* alert while Redis holds more than one alert of that detector.
C18_Witness ==
    /\ last.op = "getAlertHistory"
    /\ last.trigger = "altitude"
    /\ ~ last.aborted
    /\ last.limit = 1
    /\ Len(last.alerts) = 1
    /\ Cardinality(LiveAlerts("altitude")) > 1

-----------------------------------------------------------------------------

\* No key that a step keeps has another content after the step
ContentKept(keys, keysAfter) ==
    \A e \in keys, f \in keysAfter : e.alert.id = f.alert.id => e.alert = f.alert

\* C19: no step changes the alert stored under a key that exists before and
\* after it, and no step changes an active list except by pushing alerts at
\* its front and trimming it.
C19_AlertsImmutable ==
    [][ /\ ContentKept(alertCollision, alertCollision')
        /\ ContentKept(alertLowAltitude, alertLowAltitude')
        /\ PushedAndTrimmed(alertsCollisionActive, alertsCollisionActive')
        /\ PushedAndTrimmed(alertsAltitudeActive, alertsAltitudeActive') ]_vars

-----------------------------------------------------------------------------

QueryOps ==
    {"getActiveAlerts", "getAlertHistory", "getLiveFlights", "getFlightDetails",
     "getFlightsByTerminal", "getSummary"}

\* The step is a call of one of the query operations
QueryStep == last'.op \in QueryOps \/ last'.trigger = "getActiveAlerts"

\* C20: a call of getActiveAlerts or getAlertHistory of either detector, of
\* getLiveFlights, getFlightDetails, getFlightsByTerminal or getSummary leaves
\* the position store, the alert keys and the active lists of both detectors
\* as they are.
C20_QueriesArePureReads ==
    [][ QueryStep => UNCHANGED <<aircraftPosition, ledgers>> ]_vars

-----------------------------------------------------------------------------

\* The operations that return flight views
ViewOps == {"getLiveFlights", "getFlightDetails", "getFlightsByTerminal"}

\* The views of the last operation that carry a position
LiveViews ==
    IF last.op \in ViewOps
    THEN {last.flights[i] : i \in {j \in DOMAIN last.flights :
                                      last.flights[j].position # <<>>}}
    ELSE {}

\* The entry of the Position Store a view was built of
EntryOf(view) == CHOOSE e \in aircraftPosition : e.callsign = view.callsign

\* The schedule documents of an identifier
SchedulesOf(identifier) == {d \in FlightSchedules : d.flightNumber = identifier}

ScheduleLookupFailed == \E site \in last.faults : site.call = "schedule"

GateLookupFailed == \E site \in last.faults : site.call = "gate"

\* The status the claim gives a view of an entry, schedule being what the
\* view carries as its schedule
StatusRule(entry, schedule) ==
    IF entry.on_ground = "true"
    THEN "on_ground"
    ELSE IF schedule # <<>> /\ schedule[1].status # ""
         THEN schedule[1].status
         ELSE "in_flight"

\* C21: every view with a position is the view of a live entry, carries the
\* schedule of its callsign (none if there is none or its lookup failed) and
\* has the status on_ground if the entry's flag is set, else the status of
\* that schedule if it has one, else in_flight.
C21_StatusDerived ==
    \A view \in LiveViews :
        /\ \E e \in aircraftPosition : e.callsign = view.callsign
        /\ view.position[1].altitude = EntryOf(view).altitude
        /\ view.on_ground = (EntryOf(view).on_ground = "true")
        /\ view.schedule = <<>> \/ view.schedule[1] \in SchedulesOf(view.callsign)
        /\ (view.schedule = <<>> /\ ~ ScheduleLookupFailed)
               => SchedulesOf(view.callsign) = {}
        /\ view.status = StatusRule(EntryOf(view), view.schedule)

\* C21 witness: getFlightDetails has returned the view of DLH401, which is on
\* the ground and has a schedule with the status delayed: its status is
\* on_ground.
C21_Witness ==
    /\ last.op = "getFlightDetails"
    /\ last.identifier = "DLH401"
    /\ Len(last.flights) = 1
    /\ last.flights[1].on_ground
    /\ last.flights[1].schedule # <<>>
    /\ last.flights[1].schedule[1].status = "delayed"
    /\ last.flights[1].status = "on_ground"

-----------------------------------------------------------------------------

\* getFlightDetails found no key of a live position for its identifier, no
\* call of it failed, and there is a schedule of the identifier
ScheduleOnlyCase ==
    /\ last.op = "getFlightDetails"
    /\ last.keys = <<>>
    /\ last.faults = {}
    /\ SchedulesOf(last.identifier) # {}

-----------------------------------------------------------------------------

\* getFlightDetails was asked for an identifier that has neither a key of a
\* live position nor a schedule, and no Redis call of it failed
AbsentCase ==
    /\ last.op = "getFlightDetails"
    /\ last.keys = <<>>
    /\ SchedulesOf(last.identifier) = {}
    /\ ~ \E site \in last.faults : site.call = "redis"

-----------------------------------------------------------------------------

\* The lookup call of the k-th entry failed
LookupFailedAt(call, k) ==
    \E site \in last.faults : site.call = call /\ site.index = k

\* The gate and the terminal the graph assigns to a callsign, null if none
GateOf(callsign) ==
    IF \E g \in GateAssignments : g.callsign = callsign
    THEN LET g == CHOOSE h \in GateAssignments : h.callsign = callsign
         IN  [gate |-> g.gate, terminal |-> g.terminal]
    ELSE [gate |-> Null, terminal |-> Null]

\* C24: unless a Redis call fails, getLiveFlights returns one view for each
\* entry of the Position Store, in the order of the keys; the view of an
\* entry whose gate lookup failed has gate and terminal null, the view of an
\* entry whose schedule lookup failed has no schedule, and every other view
\* has the gate, the terminal and the schedule of its callsign.
C24_OneViewPerEntry ==
    last.op = "getLiveFlights" =>
        /\ last.threw <=> \E site \in last.faults : site.call = "redis"
        /\ ~ last.threw =>
            /\ Len(last.flights) = Cardinality(aircraftPosition)
            /\ Len(last.flights) = Len(last.keys)
            /\ \A k \in DOMAIN last.flights :
                LET view == last.flights[k]
                IN  /\ PositionKey(view.callsign) = last.keys[k]
                    /\ \E e \in aircraftPosition : e.callsign = view.callsign
                    /\ view.position # <<>>
                    /\ [gate |-> view.gate, terminal |-> view.terminal] =
                           IF LookupFailedAt("gate", k)
                           THEN [gate |-> Null, terminal |-> Null]
                           ELSE GateOf(view.callsign)
                    /\ IF LookupFailedAt("schedule", k)
                       THEN view.schedule = <<>>
                       ELSE \/ view.schedule = <<>> /\ SchedulesOf(view.callsign) = {}
                            \/ /\ view.schedule # <<>>
                               /\ view.schedule[1] \in SchedulesOf(view.callsign)

\* C24 witness: the gate lookup of AUA456 failed; getLiveFlights has returned
\* two views, the one of AUA456 without a gate, the other with its schedule.
C24_Witness ==
    /\ last.op = "getLiveFlights"
    /\ ~ last.threw
    /\ Len(last.flights) = 2
    /\ \E k \in DOMAIN last.flights :
           /\ LookupFailedAt("gate", k)
           /\ last.flights[k].callsign = "AUA456"
           /\ last.flights[k].gate = Null
    /\ \E k \in DOMAIN last.flights :
           /\ last.flights[k].callsign = "DLH401"
           /\ last.flights[k].schedule # <<>>

-----------------------------------------------------------------------------

\* C26: every entry of the Position Store has an expiry, and an entry that a
\* step has written expires 300 s after that step, also when the write
\* sequence of the step fails part-way.
C26_TtlFromLastWrite ==
    [][ \A e \in aircraftPosition' :
            /\ e.expireAt # NoExpiry
            /\ e \notin aircraftPosition =>
                   e.expireAt = now' + Seconds(POSITION_TTL_S) ]_vars

-----------------------------------------------------------------------------

\* The fields of the hashes stored under the key of a callsign
FieldsOf(store, callsign) ==
    { [ callsign |-> e.callsign, latitude |-> e.latitude,
        longitude |-> e.longitude, altitude |-> e.altitude,
        on_ground |-> e.on_ground ] :
          e \in {f \in store : f.key = PositionKey(callsign)} }

\* The fields one ingestion write of an aircraft stores
WrittenFields(aircraft) ==
    [ callsign |-> aircraft.callsign, latitude |-> aircraft.latitude,
      longitude |-> aircraft.longitude, altitude |-> aircraft.altitude,
      on_ground |-> BoolToString(aircraft.on_ground) ]

\* The positions of a batch that are of one callsign
WritesOf(positions, callsign) ==
    {i \in DOMAIN positions : positions[i].callsign = callsign}

\* C27: the Position Store holds at most one entry for each callsign, under
\* the key of the callsign.  After a call of storeLivePositions the entry of a
\* callsign of the batch has the fields of the last position the batch has of
\* it (or, if the call failed part-way, these or the fields it had before),
\* and the entries of the other callsigns have the fields they had.
C27_OneCurrentSlot ==
    [][ /\ \A e \in aircraftPosition' : e.key = PositionKey(e.callsign)
        /\ \A c \in Callsigns : Cardinality(FieldsOf(aircraftPosition', c)) <= 1
        /\ last'.op = "storeLivePositions" =>
               \A c \in Callsigns :
                   LET writes == WritesOf(last'.positions, c)
                       latest == WrittenFields(last'.positions[
                                     CHOOSE i \in writes : \A j \in writes : j <= i])
                   IN  IF writes = {}
                       THEN FieldsOf(aircraftPosition', c) = FieldsOf(aircraftPosition, c)
                       ELSE IF last'.aborted
                            THEN FieldsOf(aircraftPosition', c)
                                     \in {FieldsOf(aircraftPosition, c), {latest}}
                            ELSE FieldsOf(aircraftPosition', c) = {latest} ]_vars

\* C27 witness: DLH401 was stored at 300 ft, which an altitude alert records,
\* and a later write has replaced the entry by one at 400 ft.
C27_Witness ==
    /\ last.op = "storeLivePositions"
    /\ ~ last.aborted
    /\ \E a \in alertLowAltitude :
           a.alert.callsign = "DLH401" /\ a.alert.altitude = Feet(300)
    /\ FieldsOf(aircraftPosition, "DLH401") =
           {WrittenFields(Aircraft("DLH401", 3, Feet(400), FALSE))}

-----------------------------------------------------------------------------

\* C29: when stopMonitoring of a detector has returned, whatever calls of
\* startMonitoring and stopMonitoring came before it, no interval timer of
\* that detector is set, and the step after it is not a cycle of that
\* detector that a timer begins.
C29_StopClearsEveryTimer ==
    [][ last.op = "stopMonitoring" =>
            /\ IntervalsOf(last.trigger) = {}
            /\ ~ (last'.trigger = "timer" /\ last'.op # "stopMonitoring"
                     /\ ServiceOf(last') = last.trigger) ]_vars

-----------------------------------------------------------------------------

\* C25: in what getSummary returns, inFlight and onGround add up to
\* totalFlights, which is the number of flights the call has listed;
\* occupiedGates and availableGates add up to totalGates, the number of rows
\* of the gate query; the counts are those of the flights and gates read in
\* this call, whatever ingestion wrote while the call was in progress.
C25_SummaryCountsAddUp ==
    (last.op = "getSummary" /\ ~ last.threw) =>
        LET summary == last.summary[1]
            grounded == {k \in DOMAIN last.flights : last.flights[k].on_ground}
        IN  /\ summary.inFlight + summary.onGround = summary.totalFlights
            /\ summary.totalFlights = Len(last.flights)
            /\ summary.onGround = Cardinality(grounded)
            /\ summary.inFlight = Len(last.flights) - Cardinality(grounded)
            /\ summary.occupiedGates + summary.availableGates = summary.totalGates
            /\ summary.totalGates = Cardinality(getGateStatus)
            /\ summary.timestamp = now

\* C25 witness: getSummary has returned the counts of two flights, one in the
\* air and one on the ground, while the Position Store holds three: ingestion
\* wrote an aircraft after the call had listed the keys.
C25_Witness ==
    /\ last.op = "getSummary"
    /\ ~ last.threw
    /\ last.summary[1].totalFlights = 2
    /\ last.summary[1].inFlight = 1
    /\ last.summary[1].onGround = 1
    /\ Cardinality(aircraftPosition) = 3

-----------------------------------------------------------------------------

\* The executions of a cycle function that are in progress
CyclesInProgress(op) == {e \in running : e.op = op}

\* C28: at no time are two executions of checkCollisionRisks in progress,
\* whether the timer, startMonitoring or a direct call began them.
C28_CyclesNeverOverlap ==
    Cardinality(CyclesInProgress("checkCollisionRisks")) <= 1

-----------------------------------------------------------------------------

\* stopMonitoring has cleared the interval that the last startMonitoring of
\* the detector set
Stopped(service) ==
    /\ checkInterval[service] # NoInterval
    /\ [service |-> service, id |-> checkInterval[service]] \notin intervals

\* C30: while the collision detector is stopped, no step of a cycle that the
\* timer or startMonitoring began writes to the collision ledger.
C30_NoWriteAfterStop ==
    [][ (Stopped("collision") /\ last'.trigger \in {"start", "timer"}) =>
            UNCHANGED <<alertCollision, alertsCollisionActive>> ]_vars

-----------------------------------------------------------------------------

\* C31: getActiveAlerts never returns more than 100 entries, whatever
\* commands of storeAlert calls (lPush, then lTrim) its lRange comes between.
C31_ActiveReadWithinCap ==
    last.op = "getActiveAlerts" => Len(last.alerts) <= ACTIVE_LAST_INDEX + 1

-----------------------------------------------------------------------------

\* The entries of the enumerated keys that are still in the Position Store,
\* in the air, when the cycle returns: no read of the cycle found them gone
StillLive(keys) ==
    {e \in aircraftPosition :
        e.on_ground # "true" /\ \E k \in DOMAIN keys : keys[k] = e.key}

\* C32: a cycle that enumerated a key whose entry expired before it was read
\* returns without throwing or aborting, and it has evaluated every other
\* aircraft it enumerated: the collision cycle returns an alert for each
\* unsafe pair of them, the altitude cycle lists each of them as monitored.
C32_ExpiredEntrySkipped ==
    /\ last.op = "checkCollisionRisks" =>
          /\ ~ last.threw /\ ~ last.aborted
          /\ \A a, b \in StillLive(last.keys) :
                (a.key # b.key
                    /\ IsUnsafe(calculateDistance(a.latitude, a.longitude,
                                                  b.latitude, b.longitude),
                                Abs(a.altitude - b.altitude)))
                => \E n \in DOMAIN last.alerts :
                      {last.alerts[n].aircraft1, last.alerts[n].aircraft2}
                          = {a.callsign, b.callsign}
    /\ last.op = "checkLowAltitudeAircraft" =>
          /\ ~ last.threw /\ ~ last.aborted
          /\ last.totalAircraft = Len(last.monitoredAircraft)
          /\ \A a \in StillLive(last.keys) :
                \E n \in DOMAIN last.monitoredAircraft :
                    last.monitoredAircraft[n].callsign = a.callsign

\* C32 witness: a collision cycle has returned that enumerated three keys, of
\* which the entry of AUA456 expired before its read, with the one alert of
\* the pair that was left; AUA456 was within both thresholds of each.
C32_Witness ==
    /\ last.op = "checkCollisionRisks"
    /\ Len(last.keys) = 3
    /\ PositionKeys(aircraftPosition)
           = {PositionKey("DLH401"), PositionKey("SWR123")}
    /\ Len(last.alerts) = 1
    /\ {last.alerts[1].aircraft1, last.alerts[1].aircraft2} = {"DLH401", "SWR123"}

-----------------------------------------------------------------------------

\* C33: a view with a position that getFlightDetails returns is the view of
\* the identifier it was asked for, also when the identifier is the beginning
\* of the callsign of a live aircraft.
C33_DetailsOfThatIdentifier ==
    (last.op = "getFlightDetails"
        /\ Len(last.flights) = 1
        /\ last.flights[1].position # <<>>)
    => last.flights[1].callsign = last.identifier

-----------------------------------------------------------------------------

\* C34: when Redis holds more than limit unexpired alerts of a detector and no
\* Redis call fails, getAlertHistory(limit) returns limit alerts and none of
\* the alerts it leaves out is newer than one it returns.
C34_HistoryKeepsNewest ==
    (last.op = "getAlertHistory"
        /\ ~ last.aborted
        /\ Cardinality(LiveAlerts(last.trigger)) > last.limit)
    => /\ Len(last.alerts) = last.limit
       /\ \A a \in LiveAlerts(last.trigger) :
             (\A i \in DOMAIN last.alerts : last.alerts[i] # a)
             => \A i \in DOMAIN last.alerts :
                    a.timestamp <= last.alerts[i].timestamp

-----------------------------------------------------------------------------

\* C35: a collision cycle that reads SWR123 and AUA456 at their demo
\* positions returns an alert of the pair whose severity is CRITICAL.
C35_DemoPairIsCritical ==
    (AfterCollisionCycle
        /\ aircraftPosition = storeDemoFlights({}, DEMO_FLIGHTS, 1))
    => \E n \in DOMAIN last.alerts :
          /\ {last.alerts[n].aircraft1, last.alerts[n].aircraft2}
                 = {"SWR123", "AUA456"}
          /\ last.alerts[n].severity = "CRITICAL"

-----------------------------------------------------------------------------

\* C36: in every alert a collision cycle returns, the recorded distance is
\* below 5 km, the recorded altitudeDiff is below 1000 ft, and the severity is
\* the one calculateSeverity gives for the recorded distance and altitudeDiff.
C36_RecordedFieldsConsistent ==
    AfterCollisionCycle =>
        \A n \in DOMAIN last.alerts :
            LET alert == last.alerts[n]
            IN  /\ alert.distance < SAFE_DISTANCE_KM * 100
                /\ alert.altitudeDiff < SAFE_ALTITUDE_DIFF_FT
                /\ alert.severity =
                       CollisionCalculateSeverity(alert.distance * 10,
                                                  Feet(alert.altitudeDiff))

-----------------------------------------------------------------------------

\* C37: each storeAlert call pushes the alert it was handed onto the active
\* list of its detector, so two entries of a list stem from two creations of
\* an alert: no two entries of a list have the same id, also when the cycles
\* that created them ran within one millisecond.
C37_AlertIdsUnique ==
    /\ \A i, j \in DOMAIN alertsCollisionActive :
          i # j => alertsCollisionActive[i].id # alertsCollisionActive[j].id
    /\ \A i, j \in DOMAIN alertsAltitudeActive :
          i # j => alertsAltitudeActive[i].id # alertsAltitudeActive[j].id

-----------------------------------------------------------------------------

\* What a checkLowAltitudeAircraft cycle in which no call fails returns over
\* the Position Store as it is
CycleNow ==
    LET keys == CHOOSE s \in Orderings(PositionKeys(aircraftPosition)) : TRUE
    IN  checkLowAltitudeAircraft(
            aircraftPosition,
            [keys |-> alertLowAltitude, active |-> alertsAltitudeActive],
            keys,
            [readFaultAt |-> 0,
             zoneInfos |-> [k \in DOMAIN keys |->
                               CHOOSE z \in ZoneInfosFor(aircraftPosition, keys[k],
                                                         FALSE) : TRUE],
             modes |-> PlanModes({}, Len(keys))],
            now)

\* The cycle returns an alert of a severity other than SAFE for the callsign
AlertedNow(callsign) ==
    \E n \in DOMAIN CycleNow.alerts :
        /\ CycleNow.alerts[n].callsign = callsign
        /\ CycleNow.alerts[n].severity \in {"CRITICAL", "HIGH", "MEDIUM"}

\* C38: when no call of it fails, getAircraftAltitudeStatus returns null for a
\* callsign that has no live entry, and for a live entry, in the air or on the
\* ground, a status whose isSafe is false exactly when a cycle over the same
\* store returns a CRITICAL, HIGH or MEDIUM alert for the callsign.
C38_StatusAgreesWithDetector ==
    (last.op = "getAircraftAltitudeStatus" /\ last.faults = {}) =>
        IF PositionKey(last.identifier) \in PositionKeys(aircraftPosition)
        THEN /\ Len(last.status) = 1
             /\ (~ last.status[1].isSafe) <=> AlertedNow(last.identifier)
        ELSE last.status = <<>>

-----------------------------------------------------------------------------

\* C39: a checkLowAltitudeAircraft cycle that returns the error result
\* because a read of the Position Store threw leaves the altitude ledger,
\* keys and active list, as it was when the cycle began.
C39_FailedCycleWroteNothing ==
    [][ (/\ last'.op = "checkLowAltitudeAircraft"
         /\ last'.aborted
         /\ \E f \in last'.faults : f.call = "read")
        => UNCHANGED <<alertLowAltitude, alertsAltitudeActive>> ]_vars

====
